---- MODULE Spec2Model ----
(***************************************************************************)
(* Registration core of the Service Framework as the documentation of the *)
(* repository describes it: the ServiceRegistry (one instance per         *)
(* interface), the PlatformGate, the ConstructorResolver (constructor     *)
(* injection from registry lookups) and the RegistrationSequencer (the    *)
(* pass over the configured service list, top to bottom).                 *)
(*                                                                         *)
(* Constructors are modelled as the articles' transitive examples write   *)
(* them: they store their arguments and do not throw.                     *)
(***************************************************************************)
EXTENDS Naturals, Sequences, FiniteSets

VARIABLES
    config,          \* the ordered service configuration list (immutable)
    activePlatform,  \* the platform found active at process start
    pos,             \* number of descriptors the sequencer has finished
    registry,        \* set of RegisteredService {interfaceType, instance, name}
    constructed,     \* instances the sequencer built: {instance, concreteType, args, index}
    outcomes,        \* outcomes[k]: what happened to the k-th attempt
    attempts,        \* attempts[k]: list position of the k-th attempt
    nextInstance,    \* next fresh instance handle
    calls,           \* number of runtime API calls and scene loads made so far
    lastCall,        \* the last runtime API call and its result
    serviceCache,    \* GetServiceCached's cache: set of {interfaceType, instance}
    isInitialized,   \* the manager has reported itself initialized
    initialized,     \* instances whose initialization callback ran, in order
    environment,     \* the platform an evaluation made now would find active
    initializations, \* number of times the manager has been initialized
    loadedScenes,    \* the scenes currently loaded
    sceneServices,   \* what each scene registered: set of {scene, interfaceType, instance}
    disabledServices, \* instances of services that have been disabled
    inFlight,        \* descriptors between gate and commit: {index, stage, args}
    callers,         \* callers[c]: the call that caller c is making, and how far it is
    registryLock,    \* who holds the registry's lock: one writer or some readers
    cachedPlatformTypes, \* the cached array of platform types, Null before the scan
    platformCacheLock,   \* the caller inside lock (platformCacheLock), 0 when free
    assemblyScans,       \* number of assembly scans made so far
    platformChecks,      \* platformChecks[c]: caller c's CheckPlatforms call
    lists,           \* the List objects allocated so far: lists[id] = {kind, count, capacity}
    listPool,        \* the ids of the lists in the pool of GetServices
    getServicesCalls, \* getServicesCalls[c]: caller c's GetServices call
    results,         \* the ids of the lists GetServices has handed to its callers
    interfaceCache,  \* interfaceCache: set of {type, interfaces}, one entry per type
    interfaceCall,   \* the last GetCachedInterfaces call and what it returned
    now,             \* Time.realtimeSinceStartup, in units of the timeout
    waiter           \* the WaitUntilInitializedAsync call under way, and how far it is

lifecycleVars == <<serviceCache, isInitialized, initialized>>

platformVars == <<environment, initializations>>

sceneVars == <<loadedScenes, sceneServices>>

enabledVars == <<disabledServices>>

sequencerVars == <<inFlight>>

concurrencyVars == <<callers, registryLock>>

poolVars == <<lists, listPool, getServicesCalls, results>>

reflectionVars == <<interfaceCache, interfaceCall>>

waitVars == <<now, waiter>>

platformCacheVars ==
    <<cachedPlatformTypes, platformCacheLock, assemblyScans, platformChecks>>

\* the state of the manager outside the registration core
managerVars ==
    <<enabledVars, sequencerVars, concurrencyVars, platformCacheVars, poolVars,
      reflectionVars, waitVars>>

vars == <<config, activePlatform, pos, registry, constructed, outcomes,
          attempts, nextInstance, calls, lastCall, serviceCache, isInitialized,
          initialized, environment, initializations, loadedScenes, sceneServices,
          managerVars>>

-----------------------------------------------------------------------------
(* Bounds of the model *)

MaxLen == 3
MaxCalls == 1
MaxPriority == 2
MaxRuntimeLen == 2
MaxRuntimeCalls == 3
MaxLookupLen == 1
MaxLookupCalls == 2
MaxPlatformLen == 2
MaxInitializations == 2
MaxLifecycleLen == 2
MaxModuleLen == 2
MaxSceneLen == 2
MaxSceneLoads == 3
MaxEnabledLen == 1
MaxEnabledCalls == 2
MaxSequencerLen == 3
MaxDuplicateLen == 3
MaxCallers == 2
MaxWaitLen == 1
MaxTime == 3
MaxTimeout == 2
MaxWaits == 2
MaxReflectionCalls == 3
MaxGetServicesCalls == 3
MaxPlatformChecks == 4
MaxConcurrentCalls == 3

-----------------------------------------------------------------------------
(* Types of the articles' examples *)

Null == 0

Interfaces ==
    {"IAuthenticationService", "IUserService", "IProfileService", "ILoggingService"}

ConcreteTypes ==
    {"AuthenticationService", "UserService", "ProfileService", "LoggingService",
     "CircularAuthenticationService"}

\* the interface a concrete type registers under
InterfaceOf(t) ==
    CASE t = "AuthenticationService" -> "IAuthenticationService"
      [] t = "UserService" -> "IUserService"
      [] t = "ProfileService" -> "IProfileService"
      [] t = "LoggingService" -> "ILoggingService"
      [] t = "CircularAuthenticationService" -> "IAuthenticationService"
      [] t = "ModularService" -> "IModularService"
      [] t = "OtherModularService" -> "IOtherModularService"
      [] t = "ManagedService" -> "IManagedService"
      [] t = "ServiceModuleA" -> "IServiceModuleA"
      [] t = "ServiceModuleB" -> "IServiceModuleB"

\* constructor parameters after the fixed {name, priority, profile}
ConstructorParameters(t) ==
    CASE t = "AuthenticationService" -> <<>>
      [] t = "UserService" -> <<"IAuthenticationService">>
      [] t = "ProfileService" -> <<"IUserService">>
      [] t = "LoggingService" -> <<"IAuthenticationService", "IUserService">>
      [] t = "CircularAuthenticationService" -> <<"IUserService">>
      [] OTHER -> <<>>

Platforms == {"Editor", "Android"}

\* the platform selections of a configuration entry: Nothing, one platform, Everything
PlatformSelections == {{}, {"Editor"}, Platforms}

ServiceDescriptor(t, prio, plats) ==
    [name |-> t, concreteType |-> t, priority |-> prio, platforms |-> plats]

\* services that are configured with service modules, and the modules' interfaces
ModularTypes == {"ModularService", "OtherModularService", "ManagedService"}

ModuleInterfaces == {"IServiceModuleA", "IServiceModuleB"}

RegisterServiceModulesAlways(t) == TRUE

\* the service's RegisterServiceModules property: true unless overridden
RegisterServiceModules(t) == t # "ManagedService"

\* the modules in a service's configuration, each with its own platforms
ModulesOf(t) ==
    CASE t = "ModularService" ->
            <<ServiceDescriptor("ServiceModuleA", 1, Platforms),
              ServiceDescriptor("ServiceModuleB", 1, {"Android"})>>
      [] t = "OtherModularService" ->
            <<ServiceDescriptor("ServiceModuleA", 1, Platforms)>>
      [] t = "ManagedService" ->
            <<ServiceDescriptor("ServiceModuleA", 1, Platforms),
              ServiceDescriptor("ServiceModuleB", 1, Platforms)>>
      [] OTHER -> <<>>

\* ordered lists of at most n descriptors of services with modules
ModuleConfigurations(n) ==
    UNION {[1..k -> {ServiceDescriptor(t, 1, ps) :
                        t \in ModularTypes, ps \in PlatformSelections}] :
           k \in 0..n}

\* lists in which services are duplicated against different platforms
DuplicateConfigurations(n) ==
    UNION {[1..k -> {ServiceDescriptor(t, 1, ps) :
                        t \in ConcreteTypes, ps \in SUBSET Platforms}] :
           k \in 0..n}

\* ordered lists of at most n descriptors with priorities in 1..maxPrio
Configurations(n, maxPrio) ==
    UNION {[1..k -> {ServiceDescriptor(t, p, ps) :
                        t \in ConcreteTypes, p \in 1..maxPrio, ps \in PlatformSelections}] :
           k \in 0..n}

-----------------------------------------------------------------------------
(* ServiceRegistry *)

IsServiceRegistered(reg, T) == \E r \in reg : r.interfaceType = T

GetServiceOfAnyInterface(reg, T) ==
    IF reg # {} THEN (CHOOSE r \in reg : TRUE).instance ELSE Null

GetService(reg, T) ==
    IF IsServiceRegistered(reg, T)
    THEN (CHOOSE r \in reg : r.interfaceType = T).instance
    ELSE Null

RegisterWithoutCheck(reg, T, i, name) ==
    [result |-> "success",
     registry |-> reg \cup {[interfaceType |-> T, instance |-> i, name |-> name]}]

RegisterReplacing(reg, T, i, name) ==
    [result |-> IF IsServiceRegistered(reg, T) THEN "AlreadyRegisteredError" ELSE "success",
     registry |-> {r \in reg : r.interfaceType # T}
                    \cup {[interfaceType |-> T, instance |-> i, name |-> name]}]

TryRegisterService(reg, T, i, name) ==
    IF IsServiceRegistered(reg, T)
    THEN [result |-> "AlreadyRegisteredError", registry |-> reg]
    ELSE [result |-> "success",
          registry |-> reg \cup {[interfaceType |-> T, instance |-> i, name |-> name]}]

UnregisterEverything(reg, T) ==
    IF IsServiceRegistered(reg, T)
    THEN [result |-> "success", registry |-> {}]
    ELSE [result |-> "NotFoundError", registry |-> reg]

TryUnregisterService(reg, T) ==
    IF IsServiceRegistered(reg, T)
    THEN [result |-> "success", registry |-> {r \in reg : r.interfaceType # T}]
    ELSE [result |-> "NotFoundError", registry |-> reg]

\* TryGetService: the lookup, and whether it found anything
TryGetService(reg, T) ==
    [found |-> GetService(reg, T) # Null, service |-> GetService(reg, T)]

-----------------------------------------------------------------------------
(* The service cache of GetServiceCached *)

InvalidateNothing(cache, result) == cache

\* unregistering a service clears the cache
InvalidateServiceCache(cache, result) ==
    IF result = "success" THEN {} ELSE cache

\* ready: IsInitialized, with the application not quitting and a profile set
GetServiceCached(reg, cache, ready, T) ==
    IF ~ready
    THEN [service |-> Null, cache |-> cache]
    ELSE IF \E e \in cache : e.interfaceType = T
    THEN [service |-> (CHOOSE e \in cache : e.interfaceType = T).instance,
          cache |-> cache]
    ELSE IF IsServiceRegistered(reg, T) /\ TryGetService(reg, T).found
    THEN [service |-> TryGetService(reg, T).service,
          cache |-> cache \cup {[interfaceType |-> T,
                                 instance |-> TryGetService(reg, T).service]}]
    ELSE [service |-> Null, cache |-> cache]

-----------------------------------------------------------------------------
(* The list pool of GetServices *)

MaxPooledListCapacity == 64

\* the numbers of services a search may find
ServiceCounts == {0, 2, MaxPooledListCapacity, MaxPooledListCapacity + 1}

\* new List<IService>() and new List<T>(capacity)
NewList(kind, capacity) == [kind |-> kind, count |-> 0, capacity |-> capacity]

RECURSIVE EnsureCapacity(_, _)
\* the capacity of a List after it grew to hold n items
EnsureCapacity(capacity, n) ==
    IF capacity >= n THEN capacity
    ELSE EnsureCapacity(IF capacity = 0 THEN 4 ELSE 2 * capacity, n)

\* n items are added to the list
AddItems(list, n) ==
    [list EXCEPT !.count = list.count + n,
                 !.capacity = EnsureCapacity(list.capacity, list.count + n)]

\* list.Clear(): the items go, the capacity stays
Clear(list) == [list EXCEPT !.count = 0]

\* the heap with one more object
Allocate(heap, list) == Append(heap, list)

RentListPeeking(pool, heap, taken) ==
    IF taken # Null
    THEN [list |-> taken, pool |-> pool, heap |-> heap]
    ELSE [list |-> Len(heap) + 1, pool |-> pool,
          heap |-> Allocate(heap, NewList("IService", 0))]

\* RentList: the list TryTake took out of the pool (taken), or a new one
RentList(pool, heap, taken) ==
    IF taken # Null
    THEN [list |-> taken, pool |-> pool \ {taken}, heap |-> heap]
    ELSE [list |-> Len(heap) + 1, pool |-> pool,
          heap |-> Allocate(heap, NewList("IService", 0))]

ReturnListUnbounded(list, pool, heap) ==
    IF list = Null
    THEN [pool |-> pool, heap |-> heap]
    ELSE [pool |-> pool \cup {list}, heap |-> [heap EXCEPT ![list] = Clear(@)]]

\* ReturnList: null is ignored; the list is cleared, and pooled unless it grew
\* too large
ReturnList(list, pool, heap) ==
    IF list = Null
    THEN [pool |-> pool, heap |-> heap]
    ELSE [pool |-> IF heap[list].capacity <= MaxPooledListCapacity
                   THEN pool \cup {list} ELSE pool,
          heap |-> [heap EXCEPT ![list] = Clear(@)]]

-----------------------------------------------------------------------------
(* The reflection cache of interface types *)

\* the types whose interfaces are asked for
ReflectedTypes == {"AuthenticationService", "ServiceModuleA"}

\* Type.GetInterfaces(): the FullNames of the interfaces a type implements
GetInterfaces(t) ==
    IF t = "AuthenticationService"
    THEN <<"IAuthenticationService",
           "RealityCollective.ServiceFramework.Interfaces.IService",
           "System.IDisposable">>
    ELSE <<"IServiceModuleA",
           "RealityCollective.ServiceFramework.Interfaces.IServiceModule",
           "RealityCollective.ServiceFramework.Interfaces.IService",
           "System.IDisposable">>

\* the list the Service Manager passes
ignoredNamespaces ==
    <<"System.IDisposable",
      "RealityCollective.ServiceFramework.Interfaces.IService",
      "RealityCollective.ServiceFramework.Interfaces.IServiceModule">>

\* an argument for the ignored list: null, or an array of FullNames
IgnoredList(isNull, names) == [isNull |-> isNull, names |-> names]

IgnoredLists ==
    {IgnoredList(TRUE, <<>>), IgnoredList(FALSE, <<>>),
     IgnoredList(FALSE, <<"System.IDisposable">>),
     IgnoredList(FALSE, ignoredNamespaces)}

\* the inner loop: the interface's FullName equals one of the ignored names
IsIgnored(interface, ignored) ==
    \E j \in 1..Len(ignored.names) : interface = ignored.names[j]

RECURSIVE DetectedInterfaces(_, _, _)
\* the outer loop from the i-th interface on: those not ignored, in order
DetectedInterfaces(interfaces, ignored, i) ==
    IF i > Len(interfaces) THEN <<>>
    ELSE (IF IsIgnored(interfaces[i], ignored) THEN <<>> ELSE <<interfaces[i]>>)
            \o DetectedInterfaces(interfaces, ignored, i + 1)

\* the value factory of GetCachedInterfaces
FilterInterfaces(t, ignored) ==
    IF ignored.isNull \/ Len(ignored.names) = 0
    THEN GetInterfaces(t)
    ELSE DetectedInterfaces(GetInterfaces(t), ignored, 1)

\* interfaceCache.GetOrAdd(type, factory): the cached value when the type has
\* one, else the factory's value, which is cached
GetCachedInterfaces(cache, t, ignored) ==
    IF \E e \in cache : e.type = t
    THEN [interfaces |-> (CHOOSE e \in cache : e.type = t).interfaces,
          cache |-> cache]
    ELSE [interfaces |-> FilterInterfaces(t, ignored),
          cache |-> cache \cup {[type |-> t,
                                interfaces |-> FilterInterfaces(t, ignored)]}]

\* GetInterfacesFromType of the Service Manager
GetInterfacesFromType(cache, t) ==
    GetCachedInterfaces(cache, t, IgnoredList(FALSE, ignoredNamespaces))

-----------------------------------------------------------------------------
(* PlatformGate *)

IsEligibleAlways(d, platform) == TRUE

\* the active set is cleared and evaluated again: what is available now is active
CheckPlatforms(active, available) == available

IsEligibleOnAnyPlatform(d, platform) == d.platforms # {}

IsEligible(d, platform) == platform \in d.platforms

-----------------------------------------------------------------------------
(* ConstructorResolver *)

ResolveReversed(params, reg) ==
    [k \in 1..Len(params) |-> GetService(reg, params[Len(params) + 1 - k])]

\* one registry lookup per parameter, in declared order
Resolve(params, reg) ==
    [k \in 1..Len(params) |-> GetService(reg, params[k])]

FirstUnresolvedNever(args) == 0

FirstUnresolvedChecksFirstOnly(args) ==
    IF Len(args) > 0 /\ args[1] = Null THEN 1 ELSE 0

FirstUnresolvedLast(args) ==
    IF \E k \in 1..Len(args) : args[k] = Null
    THEN CHOOSE k \in 1..Len(args) :
            args[k] = Null /\ \A j \in (k + 1)..Len(args) : args[j] # Null
    ELSE 0

\* index of the first parameter that resolved to nothing, 0 when all resolved
FirstUnresolved(args) ==
    IF \E k \in 1..Len(args) : args[k] = Null
    THEN CHOOSE k \in 1..Len(args) :
            args[k] = Null /\ \A j \in 1..(k - 1) : args[j] # Null
    ELSE 0

-----------------------------------------------------------------------------
(* RegistrationSequencer *)

RECURSIVE SortedByPriority(_, _)
\* positions of S, higher priority first, list order among equals
SortedByPriority(cfg, S) ==
    IF S = {} THEN <<>>
    ELSE LET first == CHOOSE i \in S :
                        \A j \in S : \/ cfg[i].priority > cfg[j].priority
                                     \/ cfg[i].priority = cfg[j].priority /\ i <= j
         IN <<first>> \o SortedByPriority(cfg, S \ {first})

RegistrationOrderByPriority(cfg) == SortedByPriority(cfg, 1..Len(cfg))

RegistrationOrderReversed(cfg) == [k \in 1..Len(cfg) |-> Len(cfg) + 1 - k]

\* the list positions in the order the pass attempts them: top to bottom
RegistrationOrder(cfg) == [k \in 1..Len(cfg) |-> k]

Report(outcome, d, parameter) ==
    [outcome |-> outcome, service |-> d.name, parameter |-> parameter]

AbortAfterCommit(d, reg, inst, index, params, args, missing) ==
    [report |-> Report("MissingDependencyError", d, params[missing]),
     registry |-> reg \cup {[interfaceType |-> InterfaceOf(d.concreteType),
                             instance |-> inst, name |-> d.name]},
     built |-> {[instance |-> inst, concreteType |-> d.concreteType,
                 args |-> args, index |-> index]}]

\* a dependency was not found: the error names the service and the parameter,
\* and the registration of this entry stops here
AbortRegistration(d, reg, inst, index, params, args, missing) ==
    [report |-> Report("MissingDependencyError", d, params[missing]),
     registry |-> reg, built |-> {}]

\* one descriptor: gate, then resolve, then construct and commit
Attempt(d, reg, inst, index, platform) ==
    LET params == ConstructorParameters(d.concreteType)
        args == Resolve(params, reg)
        missing == FirstUnresolved(args)
        commit == TryRegisterService(reg, InterfaceOf(d.concreteType), inst, d.name)
    IN  IF ~IsEligible(d, platform)
        THEN [report |-> Report("skipped", d, "none"),
              registry |-> reg, built |-> {}]
        ELSE IF missing # 0
        THEN AbortRegistration(d, reg, inst, index, params, args, missing)
        ELSE [report |-> Report(IF commit.result = "success" THEN "registered"
                                ELSE commit.result, d, "none"),
              registry |-> commit.registry,
              built |-> {[instance |-> inst, concreteType |-> d.concreteType,
                          args |-> args, index |-> index]}]

AdvanceAbortingOnError(p, report, n) ==
    IF report.outcome \in {"MissingDependencyError", "AlreadyRegisteredError"}
    THEN n ELSE p + 1

\* the pass moves on to the next descriptor whatever the outcome
Advance(p, report, n) == p + 1

RECURSIVE RegisterModules(_, _, _, _, _, _, _)
\* the modules of a registered service, from the k-th on: each eligible module
\* is built by the service and then registered, unless the service keeps them
RegisterModules(d, k, reg, inst, index, platform, built) ==
    LET mods == ModulesOf(d.concreteType)
    IN  IF k > Len(mods)
        THEN [registry |-> reg, built |-> built]
        ELSE IF ~IsEligible(mods[k], platform)
        THEN RegisterModules(d, k + 1, reg, inst, index, platform, built)
        ELSE RegisterModules(d, k + 1,
                IF RegisterServiceModules(d.concreteType)
                THEN TryRegisterService(reg, InterfaceOf(mods[k].concreteType),
                                        inst, mods[k].name).registry
                ELSE reg,
                inst + 1, index, platform,
                built \cup {[instance |-> inst, concreteType |-> mods[k].concreteType,
                             args |-> <<>>, index |-> index]})

\* the pass as a value: what one pass has done so far
FreshPass ==
    [pos |-> 0, registry |-> {}, constructed |-> {}, outcomes |-> <<>>,
     attempts |-> <<>>, nextInstance |-> 1]

\* the body of the pass loop: attempt the next descriptor and move on
PassStep(cfg, platform, st) ==
    LET index == RegistrationOrder(cfg)[st.pos + 1]
        a == Attempt(cfg[index], st.registry, st.nextInstance, index, platform)
        m == IF a.report.outcome = "registered"
             THEN RegisterModules(cfg[index], 1, a.registry,
                                  st.nextInstance + Cardinality(a.built),
                                  index, platform, {})
             ELSE [registry |-> a.registry, built |-> {}]
    IN  [pos |-> Advance(st.pos, a.report, Len(cfg)),
         registry |-> m.registry,
         constructed |-> st.constructed \cup a.built \cup m.built,
         outcomes |-> Append(st.outcomes, a.report),
         attempts |-> Append(st.attempts, index),
         nextInstance |-> st.nextInstance + Cardinality(a.built)
                             + Cardinality(m.built)]

RECURSIVE RunPass(_, _, _)
\* the whole pass: the loop over the configured list
RunPass(cfg, platform, st) ==
    IF st.pos >= Len(cfg) THEN st
    ELSE RunPass(cfg, platform, PassStep(cfg, platform, st))

Done == pos >= Len(config)

-----------------------------------------------------------------------------
(* Scene based service configuration *)

Scenes == {"SceneA", "SceneB"}

\* the service configuration of each scene
SceneConfiguration(scene) ==
    IF scene = "SceneA"
    THEN <<ServiceDescriptor("AuthenticationService", 1, Platforms),
           ServiceDescriptor("UserService", 1, Platforms),
           ServiceDescriptor("ModularService", 1, Platforms)>>
    ELSE <<ServiceDescriptor("UserService", 1, Platforms),
           ServiceDescriptor("ProfileService", 1, Platforms)>>

\* the services of the scene's configuration are registered like the base ones
LoadSceneServices(scene, reg, inst, platform) ==
    RunPass(SceneConfiguration(scene), platform,
            [pos |-> 0, registry |-> reg, constructed |-> {}, outcomes |-> <<>>,
             attempts |-> <<>>, nextInstance |-> inst])

ServicesOfSceneByInterface(reg, owned, scene) ==
    {r \in reg : \E k \in 1..Len(SceneConfiguration(scene)) :
        r.interfaceType = InterfaceOf(SceneConfiguration(scene)[k].concreteType)}

\* the registered services, modules included, that the scene registered
ServicesOfScene(reg, owned, scene) ==
    {r \in reg : \E e \in owned :
        /\ e.scene = scene
        /\ e.interfaceType = r.interfaceType
        /\ e.instance = r.instance}

-----------------------------------------------------------------------------
(* Initialization of the registered services, after the pass *)

\* what the pass built that is registered and has not been initialized yet
AwaitingInitialization(reg, built, done) ==
    {c \in built : /\ \E r \in reg : r.instance = c.instance
                   /\ \A k \in 1..Len(done) : done[k] # c.instance}

InitializationCandidatesByPosition(cfg, S) ==
    {c \in S : \A o \in S : c.index <= o.index}

\* services with higher priority values are initialized earlier
InitializationCandidates(cfg, S) ==
    {c \in S : \A o \in S : cfg[c.index].priority >= cfg[o.index].priority}

-----------------------------------------------------------------------------
(* Actions *)

\* the threads that call the Service Manager
Callers == 1..MaxCallers

IdleCall == [op |-> "none", interfaceType |-> "none", instance |-> Null,
             stage |-> "idle", occupied |-> FALSE, result |-> "none"]

FreeLock == [writer |-> 0, readers |-> {}]

\* no WaitUntilInitializedAsync call: stage, endTime, sceneName, the end of the
\* delay under way, the delays awaited, the calls made, and what was returned
NoWait ==
    [stage |-> "idle", endTime |-> 0, sceneName |-> "", delayEnd |-> 0,
     delays |-> 0, waits |-> 0, result |-> "none"]

NoInterfaceCall ==
    [op |-> "none", type |-> "none", ignored |-> IgnoredList(TRUE, <<>>),
     interfaces |-> <<>>]

\* no GetServices call: stage, what the search will find, and the two lists
IdleGetServices ==
    [stage |-> "idle", found |-> 0, castable |-> TRUE, pooledList |-> Null,
     services |-> Null, result |-> "none"]

\* no CheckPlatforms call: stage, the list being built, the array iterated
IdleCheck == [stage |-> "idle", platformTypesList |-> Null, used |-> Null]

NoCall == [op |-> "none", interfaceType |-> "none", instance |-> Null,
           result |-> "none"]

InitialState ==
    /\ activePlatform \in Platforms
    /\ pos = FreshPass.pos
    /\ registry = FreshPass.registry
    /\ constructed = FreshPass.constructed
    /\ outcomes = FreshPass.outcomes
    /\ attempts = FreshPass.attempts
    /\ nextInstance = FreshPass.nextInstance
    /\ calls = 0
    /\ lastCall = NoCall
    /\ serviceCache = {}
    /\ isInitialized = FALSE
    /\ initialized = <<>>
    /\ environment = activePlatform
    /\ initializations = 1
    /\ loadedScenes = {}
    /\ sceneServices = {}
    /\ disabledServices = {}
    /\ inFlight = {}
    /\ callers = [c \in Callers |-> IdleCall]
    /\ registryLock = FreeLock
    /\ cachedPlatformTypes = Null
    /\ platformCacheLock = 0
    /\ assemblyScans = 0
    /\ platformChecks = [c \in Callers |-> IdleCheck]
    /\ lists = <<>>
    /\ listPool = {}
    /\ getServicesCalls = [c \in Callers |-> IdleGetServices]
    /\ results = {}
    /\ interfaceCache = {}
    /\ interfaceCall = NoInterfaceCall
    /\ now = 0
    /\ waiter = NoWait

Init ==
    /\ config \in Configurations(MaxLen, 1)
    /\ InitialState

\* the sequencer processes the next descriptor of the pass
SequencerStep ==
    /\ pos < Len(config)
    /\ LET st == PassStep(config, activePlatform,
                          [pos |-> pos, registry |-> registry,
                           constructed |-> constructed, outcomes |-> outcomes,
                           attempts |-> attempts, nextInstance |-> nextInstance])
       IN  /\ registry' = st.registry
           /\ constructed' = st.constructed
           /\ nextInstance' = st.nextInstance
           /\ outcomes' = st.outcomes
           /\ attempts' = st.attempts
           /\ pos' = st.pos
    /\ UNCHANGED <<config, activePlatform, calls, lastCall>>
    /\ UNCHANGED <<lifecycleVars, platformVars, sceneVars>>
    /\ UNCHANGED managerVars

\* code registers an instance at runtime: a new one or one it already holds
RuntimeRegister(limit) ==
    /\ calls < limit
    /\ \E T \in Interfaces :
       \E i \in {nextInstance} \cup {r.instance : r \in registry} :
          LET res == TryRegisterService(registry, T, i, "runtime")
          IN  /\ registry' = res.registry
              /\ lastCall' = [op |-> "register", interfaceType |-> T,
                              instance |-> i, result |-> res.result]
              /\ nextInstance' = IF i = nextInstance THEN nextInstance + 1
                                 ELSE nextInstance
    /\ calls' = calls + 1
    /\ UNCHANGED <<config, activePlatform, pos, constructed, outcomes, attempts>>
    /\ UNCHANGED <<lifecycleVars, platformVars, sceneVars>>
    /\ UNCHANGED managerVars

RuntimeUnregisterCascading(limit) ==
    /\ calls < limit
    /\ \E T \in Interfaces :
          LET res == TryUnregisterService(registry, T)
              removed == {r.instance : r \in registry \ res.registry}
              dependents == {c.instance : c \in {x \in constructed :
                                \E k \in 1..Len(x.args) : x.args[k] \in removed}}
          IN  /\ registry' = {r \in res.registry : r.instance \notin dependents}
              /\ serviceCache' = InvalidateServiceCache(serviceCache, res.result)
              /\ lastCall' = [op |-> "unregister", interfaceType |-> T,
                              instance |-> Null, result |-> res.result]
    /\ calls' = calls + 1
    /\ UNCHANGED <<config, activePlatform, pos, constructed, outcomes, attempts,
                   nextInstance, isInitialized, initialized>>
    /\ UNCHANGED <<platformVars, sceneVars>>
    /\ UNCHANGED managerVars

\* code unregisters a service at runtime
RuntimeUnregister(limit) ==
    /\ calls < limit
    /\ \E T \in Interfaces :
          LET res == TryUnregisterService(registry, T)
          IN  /\ registry' = res.registry
              /\ serviceCache' = InvalidateServiceCache(serviceCache, res.result)
              /\ lastCall' = [op |-> "unregister", interfaceType |-> T,
                              instance |-> Null, result |-> res.result]
    /\ calls' = calls + 1
    /\ UNCHANGED <<config, activePlatform, pos, constructed, outcomes, attempts,
                   nextInstance, isInitialized, initialized>>
    /\ UNCHANGED <<platformVars, sceneVars>>
    /\ UNCHANGED managerVars

\* code asks for a service: GetService, TryGetService or IsServiceRegistered
RuntimeLookup ==
    /\ \E T \in Interfaces \cup ModuleInterfaces :
          \/ lastCall' = [op |-> "GetService", interfaceType |-> T,
                          instance |-> GetService(registry, T),
                          result |-> IF GetService(registry, T) # Null
                                     THEN "found" ELSE "NotFoundError"]
          \/ lastCall' = [op |-> "TryGetService", interfaceType |-> T,
                          instance |-> TryGetService(registry, T).service,
                          result |-> IF TryGetService(registry, T).found
                                     THEN "found" ELSE "NotFoundError"]
          \/ lastCall' = [op |-> "IsServiceRegistered", interfaceType |-> T,
                          instance |-> Null,
                          result |-> IF IsServiceRegistered(registry, T)
                                     THEN "found" ELSE "NotFoundError"]
    /\ UNCHANGED <<config, activePlatform, pos, registry, constructed, outcomes,
                   attempts, nextInstance, calls>>
    /\ UNCHANGED <<lifecycleVars, platformVars, sceneVars, sequencerVars>>
    /\ UNCHANGED <<concurrencyVars, platformCacheVars, poolVars, reflectionVars>>
    /\ UNCHANGED waitVars
    /\ UNCHANGED managerVars

\* code asks for a service through the cache
RuntimeGetServiceCached ==
    /\ \E T \in Interfaces :
          LET res == GetServiceCached(registry, serviceCache, isInitialized, T)
          IN  /\ serviceCache' = res.cache
              /\ lastCall' = [op |-> "GetServiceCached", interfaceType |-> T,
                              instance |-> res.service,
                              result |-> IF res.service # Null
                                         THEN "found" ELSE "NotFoundError"]
    /\ UNCHANGED <<config, activePlatform, pos, registry, constructed, outcomes,
                   attempts, nextInstance, calls, isInitialized, initialized>>
    /\ UNCHANGED <<platformVars, sceneVars>>
    /\ UNCHANGED managerVars

\* the initialization callback of the next service is run
InitializeNext ==
    /\ Done /\ ~isInitialized
    /\ \E c \in InitializationCandidates(config,
                   AwaitingInitialization(registry, constructed, initialized)) :
          initialized' = Append(initialized, c.instance)
    /\ UNCHANGED <<config, activePlatform, pos, registry, constructed, outcomes,
                   attempts, nextInstance, calls, lastCall, serviceCache,
                   isInitialized>>
    /\ UNCHANGED <<platformVars, sceneVars>>
    /\ UNCHANGED managerVars

RaiseInitializedDuringPass ==
    /\ ~isInitialized
    /\ isInitialized' = TRUE
    /\ UNCHANGED <<config, activePlatform, pos, registry, constructed, outcomes,
                   attempts, nextInstance, calls, lastCall, serviceCache,
                   initialized>>
    /\ UNCHANGED <<platformVars, sceneVars>>
    /\ UNCHANGED managerVars

\* every registered service is initialized: the manager reports itself ready
RaiseInitialized ==
    /\ Done /\ ~isInitialized
    /\ AwaitingInitialization(registry, constructed, initialized) = {}
    /\ isInitialized' = TRUE
    /\ UNCHANGED <<config, activePlatform, pos, registry, constructed, outcomes,
                   attempts, nextInstance, calls, lastCall, serviceCache,
                   initialized>>
    /\ UNCHANGED <<platformVars, sceneVars>>
    /\ UNCHANGED managerVars

\* a condition a platform depends on changes while the application runs
EnvironmentChanges ==
    /\ \E p \in Platforms \ {environment} : environment' = p
    /\ UNCHANGED <<config, activePlatform, pos, registry, constructed, outcomes,
                   attempts, nextInstance, calls, lastCall, initializations>>
    /\ UNCHANGED <<lifecycleVars, sceneVars>>
    /\ UNCHANGED managerVars

\* the Service Manager is reset: platforms are checked and the pass starts over
ResetServiceManager ==
    /\ initializations < MaxInitializations
    /\ initializations' = initializations + 1
    /\ activePlatform' = CheckPlatforms(activePlatform, environment)
    /\ pos' = FreshPass.pos
    /\ registry' = FreshPass.registry
    /\ constructed' = FreshPass.constructed
    /\ outcomes' = FreshPass.outcomes
    /\ attempts' = FreshPass.attempts
    /\ serviceCache' = {}
    /\ isInitialized' = FALSE
    /\ initialized' = <<>>
    /\ UNCHANGED <<config, nextInstance, calls, lastCall, environment>>
    /\ UNCHANGED sceneVars
    /\ UNCHANGED managerVars

\* a scene is loaded: the services configured for it are registered
LoadScene ==
    /\ Done
    /\ calls < MaxSceneLoads
    /\ \E scene \in Scenes \ loadedScenes :
          LET st == LoadSceneServices(scene, registry, nextInstance, activePlatform)
          IN  /\ registry' = st.registry
              /\ nextInstance' = st.nextInstance
              /\ loadedScenes' = loadedScenes \cup {scene}
              /\ sceneServices' = sceneServices \cup
                    {[scene |-> scene, interfaceType |-> r.interfaceType,
                      instance |-> r.instance] : r \in st.registry \ registry}
    /\ calls' = calls + 1
    /\ UNCHANGED <<config, activePlatform, pos, constructed, outcomes, attempts,
                   lastCall>>
    /\ UNCHANGED <<lifecycleVars, platformVars>>
    /\ UNCHANGED managerVars

\* a scene is unloaded: its services are unregistered and destroyed
UnloadScene ==
    /\ \E scene \in loadedScenes :
          /\ registry' = registry \ ServicesOfScene(registry, sceneServices, scene)
          /\ loadedScenes' = loadedScenes \ {scene}
          /\ sceneServices' = {e \in sceneServices : e.scene # scene}
    /\ serviceCache' = {}
    /\ UNCHANGED <<config, activePlatform, pos, constructed, outcomes, attempts,
                   nextInstance, calls, lastCall, isInitialized, initialized>>
    /\ UNCHANGED platformVars
    /\ UNCHANGED managerVars

\* the registry is untouched by enabling and disabling: only the flag changes
SetServiceEnabledResult(reg, T) ==
    IF IsServiceRegistered(reg, T) THEN "success" ELSE "NotFoundError"

DisableServiceUnregistering ==
    /\ \E T \in Interfaces :
          /\ registry' = TryUnregisterService(registry, T).registry
          /\ disabledServices' = disabledServices
          /\ lastCall' = [op |-> "DisableService", interfaceType |-> T,
                          instance |-> GetService(registry, T),
                          result |-> SetServiceEnabledResult(registry, T)]
    /\ UNCHANGED <<config, activePlatform, pos, constructed, outcomes,
                   attempts, nextInstance, calls>>
    /\ UNCHANGED <<lifecycleVars, platformVars, sceneVars, sequencerVars>>
    /\ UNCHANGED <<concurrencyVars, platformCacheVars, poolVars, reflectionVars>>
    /\ UNCHANGED waitVars

\* DisableService: a running service is disabled; it stays registered
DisableService ==
    /\ \E T \in Interfaces :
          /\ IsServiceRegistered(registry, T)
          /\ GetService(registry, T) \notin disabledServices
          /\ disabledServices' = disabledServices \cup {GetService(registry, T)}
          /\ lastCall' = [op |-> "DisableService", interfaceType |-> T,
                          instance |-> GetService(registry, T),
                          result |-> SetServiceEnabledResult(registry, T)]
    /\ UNCHANGED <<config, activePlatform, pos, registry, constructed, outcomes,
                   attempts, nextInstance, calls>>
    /\ UNCHANGED <<lifecycleVars, platformVars, sceneVars, sequencerVars>>
    /\ UNCHANGED <<concurrencyVars, platformCacheVars, poolVars, reflectionVars>>
    /\ UNCHANGED waitVars

\* EnableService: a disabled service is enabled again
EnableService ==
    /\ \E T \in Interfaces :
          /\ IsServiceRegistered(registry, T)
          /\ GetService(registry, T) \in disabledServices
          /\ disabledServices' = disabledServices \ {GetService(registry, T)}
          /\ lastCall' = [op |-> "EnableService", interfaceType |-> T,
                          instance |-> GetService(registry, T),
                          result |-> SetServiceEnabledResult(registry, T)]
    /\ UNCHANGED <<config, activePlatform, pos, registry, constructed, outcomes,
                   attempts, nextInstance, calls>>
    /\ UNCHANGED <<lifecycleVars, platformVars, sceneVars, sequencerVars>>
    /\ UNCHANGED <<concurrencyVars, platformCacheVars, poolVars, reflectionVars>>
    /\ UNCHANGED waitVars

\* IsServiceEnabled: registered and not disabled
IsServiceEnabled(reg, disabled, T) ==
    IsServiceRegistered(reg, T) /\ GetService(reg, T) \notin disabled

-----------------------------------------------------------------------------
(* The pass, one stage at a time: gate, then resolve, then commit *)

MayBeginAlways(flight) == TRUE

\* the sequencer processes one descriptor fully before advancing
MayBegin(flight) == flight = {}

\* a descriptor leaves the pass with its report
FinishDescriptor(f, report, reg, built) ==
    /\ pos' = Advance(pos, report, Len(config))
    /\ outcomes' = Append(outcomes, report)
    /\ attempts' = Append(attempts, f.index)
    /\ registry' = reg
    /\ constructed' = constructed \cup built
    /\ nextInstance' = nextInstance + Cardinality(built)
    /\ inFlight' = inFlight \ {f}

\* gate: the next descriptor of the list is taken up, or skipped
GateDescriptor ==
    /\ pos + Cardinality(inFlight) < Len(config)
    /\ MayBegin(inFlight)
    /\ LET index == RegistrationOrder(config)[pos + Cardinality(inFlight) + 1]
           f == [index |-> index, stage |-> "gated", args |-> <<>>]
       IN  IF ~IsEligible(config[index], activePlatform)
           THEN FinishDescriptor(f, Report("skipped", config[index], "none"),
                                 registry, {})
           ELSE /\ inFlight' = inFlight \cup {f}
                /\ UNCHANGED <<pos, registry, constructed, outcomes, attempts,
                               nextInstance>>
    /\ UNCHANGED <<config, activePlatform, calls, lastCall>>
    /\ UNCHANGED <<lifecycleVars, platformVars, sceneVars, enabledVars>>
    /\ UNCHANGED <<concurrencyVars, platformCacheVars, poolVars, reflectionVars>>
    /\ UNCHANGED waitVars

\* resolve: the constructor arguments are looked up in the registry
ResolveDescriptor ==
    /\ \E f \in inFlight :
          /\ f.stage = "gated"
          /\ LET d == config[f.index]
                 params == ConstructorParameters(d.concreteType)
                 args == Resolve(params, registry)
                 missing == FirstUnresolved(args)
                 a == AbortRegistration(d, registry, nextInstance, f.index,
                                        params, args, missing)
             IN  IF missing # 0
                 THEN FinishDescriptor(f, a.report, a.registry, a.built)
                 ELSE /\ inFlight' = (inFlight \ {f}) \cup
                            {[index |-> f.index, stage |-> "resolved", args |-> args]}
                      /\ UNCHANGED <<pos, registry, constructed, outcomes, attempts,
                                     nextInstance>>
    /\ UNCHANGED <<config, activePlatform, calls, lastCall>>
    /\ UNCHANGED <<lifecycleVars, platformVars, sceneVars, enabledVars>>
    /\ UNCHANGED <<concurrencyVars, platformCacheVars, poolVars, reflectionVars>>
    /\ UNCHANGED waitVars

\* commit: the service is built from the resolved arguments and registered
CommitDescriptor ==
    /\ \E f \in inFlight :
          /\ f.stage = "resolved"
          /\ LET d == config[f.index]
                 commit == TryRegisterService(registry, InterfaceOf(d.concreteType),
                                              nextInstance, d.name)
                 report == Report(IF commit.result = "success" THEN "registered"
                                  ELSE commit.result, d, "none")
                 built == {[instance |-> nextInstance, concreteType |-> d.concreteType,
                            args |-> f.args, index |-> f.index]}
                 m == IF report.outcome = "registered"
                      THEN RegisterModules(d, 1, commit.registry, nextInstance + 1,
                                           f.index, activePlatform, {})
                      ELSE [registry |-> commit.registry, built |-> {}]
             IN  FinishDescriptor(f, report, m.registry, built \cup m.built)
    /\ UNCHANGED <<config, activePlatform, calls, lastCall>>
    /\ UNCHANGED <<lifecycleVars, platformVars, sceneVars, enabledVars>>
    /\ UNCHANGED <<concurrencyVars, platformCacheVars, poolVars, reflectionVars>>
    /\ UNCHANGED waitVars

-----------------------------------------------------------------------------
(* Concurrent callers.  register, unregister and lookup take the registry's
   lock: one writer, or any number of readers.  GetServiceCached is the listed
   method, one statement at a time; it takes no lock. *)

ConcurrentInterfaces == {"IAuthenticationService", "IUserService"}

ConcurrentOps == {"register", "unregister", "GetService", "GetServiceCached"}

CallerFrame ==
    /\ UNCHANGED <<config, activePlatform, pos, constructed, outcomes, attempts,
                   lastCall, isInitialized, initialized>>
    /\ UNCHANGED <<platformVars, sceneVars, enabledVars, sequencerVars>>
    /\ UNCHANGED <<platformCacheVars, poolVars, reflectionVars, waitVars>>

\* a caller starts a call; a register call brings a new instance
BeginCall(c) ==
    /\ Done
    /\ calls < MaxConcurrentCalls
    /\ callers[c].stage \in {"idle", "done"}
    /\ \E op \in ConcurrentOps : \E T \in ConcurrentInterfaces :
          /\ callers' = [callers EXCEPT ![c] =
                [op |-> op, interfaceType |-> T,
                 instance |-> IF op = "register" THEN nextInstance ELSE Null,
                 stage |-> "waiting", occupied |-> FALSE, result |-> "none"]]
          /\ nextInstance' = IF op = "register" THEN nextInstance + 1
                             ELSE nextInstance
    /\ calls' = calls + 1
    /\ UNCHANGED <<registry, serviceCache, registryLock>>
    /\ CallerFrame

MayWriteAlways(lock, c) == TRUE

\* writes are serialized against each other and against reads
MayWrite(lock, c) == lock.writer = 0 /\ lock.readers = {}

\* reads may overlap each other, never a write
MayRead(lock, c) == lock.writer = 0

\* register or unregister: the caller takes the lock for writing
AcquireWrite(c) ==
    /\ callers[c].stage = "waiting"
    /\ callers[c].op \in {"register", "unregister"}
    /\ MayWrite(registryLock, c)
    /\ registryLock' = [registryLock EXCEPT !.writer = c]
    /\ callers' = [callers EXCEPT ![c].stage = "locked"]
    /\ UNCHANGED <<registry, serviceCache, nextInstance, calls>>
    /\ CallerFrame

\* the explicit "occupied" check of the check-and-set
CheckOccupied(c) ==
    /\ callers[c].stage = "locked"
    /\ callers' = [callers EXCEPT
                      ![c].stage = "checked",
                      ![c].occupied = IsServiceRegistered(registry,
                                                          callers[c].interfaceType)]
    /\ UNCHANGED <<registry, serviceCache, registryLock, nextInstance, calls>>
    /\ CallerFrame

\* the set of the check-and-set, on what the check found; the lock is released
CommitWrite(c) ==
    /\ callers[c].stage = "checked"
    /\ LET call == callers[c]
           T == call.interfaceType
       IN  IF call.op = "register"
           THEN /\ registry' = IF call.occupied THEN registry
                               ELSE registry \cup
                                      {[interfaceType |-> T, instance |-> call.instance,
                                        name |-> "runtime"]}
                /\ serviceCache' = serviceCache
                /\ callers' = [callers EXCEPT
                                  ![c].stage = "done",
                                  ![c].result = IF call.occupied
                                                THEN "AlreadyRegisteredError"
                                                ELSE "success"]
           ELSE /\ registry' = IF call.occupied
                               THEN {r \in registry : r.interfaceType # T}
                               ELSE registry
                /\ serviceCache' = InvalidateServiceCache(serviceCache,
                                      IF call.occupied THEN "success"
                                      ELSE "NotFoundError")
                /\ callers' = [callers EXCEPT
                                  ![c].stage = "done",
                                  ![c].result = IF call.occupied THEN "success"
                                                ELSE "NotFoundError"]
    /\ registryLock' = IF registryLock.writer = c
                       THEN [registryLock EXCEPT !.writer = 0]
                       ELSE registryLock
    /\ UNCHANGED <<nextInstance, calls>>
    /\ CallerFrame

\* GetService: the caller takes the lock for reading
AcquireRead(c) ==
    /\ callers[c].stage = "waiting"
    /\ callers[c].op = "GetService"
    /\ MayRead(registryLock, c)
    /\ registryLock' = [registryLock EXCEPT !.readers = @ \cup {c}]
    /\ callers' = [callers EXCEPT ![c].stage = "reading"]
    /\ UNCHANGED <<registry, serviceCache, nextInstance, calls>>
    /\ CallerFrame

\* GetService: the lookup itself; the lock is released
ReadRegistry(c) ==
    /\ callers[c].stage = "reading"
    /\ callers' = [callers EXCEPT
                      ![c].stage = "done",
                      ![c].instance = GetService(registry, callers[c].interfaceType),
                      ![c].result = IF GetService(registry, callers[c].interfaceType) # Null
                                    THEN "found" ELSE "NotFoundError"]
    /\ registryLock' = [registryLock EXCEPT !.readers = @ \ {c}]
    /\ UNCHANGED <<registry, serviceCache, nextInstance, calls>>
    /\ CallerFrame

\* GetServiceCached: the guard, then serviceCache.TryGetValue
CachedTryGetValue(c) ==
    /\ callers[c].stage = "waiting"
    /\ callers[c].op = "GetServiceCached"
    /\ LET T == callers[c].interfaceType
       IN  callers' = [callers EXCEPT ![c] =
              IF ~isInitialized
              THEN [@ EXCEPT !.stage = "done", !.result = "NotFoundError"]
              ELSE IF \E e \in serviceCache : e.interfaceType = T
              THEN [@ EXCEPT !.stage = "done", !.result = "found",
                             !.instance = (CHOOSE e \in serviceCache :
                                              e.interfaceType = T).instance]
              ELSE [@ EXCEPT !.stage = "missed"]]
    /\ UNCHANGED <<registry, serviceCache, registryLock, nextInstance, calls>>
    /\ CallerFrame

\* GetServiceCached: if (IsServiceRegistered<T>())
CachedIsServiceRegistered(c) ==
    /\ callers[c].stage = "missed"
    /\ callers' = [callers EXCEPT ![c] =
          IF IsServiceRegistered(registry, callers[c].interfaceType)
          THEN [@ EXCEPT !.stage = "registered"]
          ELSE [@ EXCEPT !.stage = "done", !.result = "NotFoundError"]]
    /\ UNCHANGED <<registry, serviceCache, registryLock, nextInstance, calls>>
    /\ CallerFrame

\* GetServiceCached: if (TryGetService(out service))
CachedTryGetService(c) ==
    /\ callers[c].stage = "registered"
    /\ LET res == TryGetService(registry, callers[c].interfaceType)
       IN  callers' = [callers EXCEPT ![c] =
              IF res.found
              THEN [@ EXCEPT !.stage = "got", !.instance = res.service]
              ELSE [@ EXCEPT !.stage = "done", !.result = "NotFoundError"]]
    /\ UNCHANGED <<registry, serviceCache, registryLock, nextInstance, calls>>
    /\ CallerFrame

\* GetServiceCached: serviceCache.Add(typeof(T), service), which throws when
\* the dictionary already has the key
CachedAdd(c) ==
    /\ callers[c].stage = "got"
    /\ LET T == callers[c].interfaceType
       IN  IF \E e \in serviceCache : e.interfaceType = T
           THEN /\ serviceCache' = serviceCache
                /\ callers' = [callers EXCEPT ![c].stage = "done",
                                              ![c].result = "ArgumentException"]
           ELSE /\ serviceCache' = serviceCache \cup
                      {[interfaceType |-> T, instance |-> callers[c].instance]}
                /\ callers' = [callers EXCEPT ![c].stage = "done",
                                              ![c].result = "found"]
    /\ UNCHANGED <<registry, registryLock, nextInstance, calls>>
    /\ CallerFrame

-----------------------------------------------------------------------------
(* CheckPlatforms, one statement at a time, called from several threads *)

PlatformCheckFrame ==
    /\ UNCHANGED <<config, pos, registry, constructed, outcomes, attempts,
                   nextInstance, lastCall>>
    /\ UNCHANGED <<lifecycleVars, sceneVars>>
    /\ UNCHANGED <<environment, initializations>>
    /\ UNCHANGED <<enabledVars, sequencerVars, concurrencyVars, poolVars>>
    /\ UNCHANGED <<reflectionVars, waitVars>>

\* the manager is initialized or reset on thread c: CheckPlatforms is called
\* and clears the active and available platforms
BeginCheckPlatforms(c) ==
    /\ calls < MaxPlatformChecks
    /\ platformChecks[c].stage \in {"idle", "done"}
    /\ platformChecks' = [platformChecks EXCEPT ![c] =
                             [stage |-> "outer", platformTypesList |-> Null,
                              used |-> Null]]
    /\ calls' = calls + 1
    /\ UNCHANGED <<activePlatform, cachedPlatformTypes, platformCacheLock,
                   assemblyScans>>
    /\ PlatformCheckFrame

\* if (cachedPlatformTypes == null), outside the lock
OuterCheck(c) ==
    /\ platformChecks[c].stage = "outer"
    /\ platformChecks' = [platformChecks EXCEPT ![c].stage =
                             IF cachedPlatformTypes = Null THEN "lock" ELSE "use"]
    /\ UNCHANGED <<activePlatform, cachedPlatformTypes, platformCacheLock,
                   assemblyScans, calls>>
    /\ PlatformCheckFrame

\* lock (platformCacheLock)
AcquirePlatformCacheLock(c) ==
    /\ platformChecks[c].stage = "lock"
    /\ platformCacheLock = 0
    /\ platformCacheLock' = c
    /\ platformChecks' = [platformChecks EXCEPT ![c].stage = "inner"]
    /\ UNCHANGED <<activePlatform, cachedPlatformTypes, assemblyScans, calls>>
    /\ PlatformCheckFrame

InnerCheckScanning(c) ==
    /\ platformChecks[c].stage = "inner"
    /\ platformChecks' = [platformChecks EXCEPT ![c].stage = "scan"]
    /\ platformCacheLock' = platformCacheLock
    /\ UNCHANGED <<activePlatform, cachedPlatformTypes, assemblyScans, calls>>
    /\ PlatformCheckFrame

\* if (cachedPlatformTypes == null), inside the lock; the lock is left when
\* another caller has filled the cache meanwhile
InnerCheck(c) ==
    /\ platformChecks[c].stage = "inner"
    /\ platformChecks' = [platformChecks EXCEPT ![c].stage =
                             IF cachedPlatformTypes = Null THEN "scan" ELSE "use"]
    /\ platformCacheLock' = IF cachedPlatformTypes = Null THEN platformCacheLock
                            ELSE 0
    /\ UNCHANGED <<activePlatform, cachedPlatformTypes, assemblyScans, calls>>
    /\ PlatformCheckFrame

\* the loops over the assemblies and their types, and the sort: a new list
ScanAssemblies(c) ==
    /\ platformChecks[c].stage = "scan"
    /\ assemblyScans' = assemblyScans + 1
    /\ platformChecks' = [platformChecks EXCEPT
                             ![c].stage = "assign",
                             ![c].platformTypesList = assemblyScans + 1]
    /\ UNCHANGED <<activePlatform, cachedPlatformTypes, platformCacheLock, calls>>
    /\ PlatformCheckFrame

\* cachedPlatformTypes = platformTypesList.ToArray(), and the lock is left
AssignCachedPlatformTypes(c) ==
    /\ platformChecks[c].stage = "assign"
    /\ cachedPlatformTypes' = platformChecks[c].platformTypesList
    /\ platformCacheLock' = 0
    /\ platformChecks' = [platformChecks EXCEPT ![c].stage = "use"]
    /\ UNCHANGED <<activePlatform, assemblyScans, calls>>
    /\ PlatformCheckFrame

\* foreach (var platformType in cachedPlatformTypes): the platforms are
\* instantiated from the cached array and evaluated
UseCachedPlatformTypes(c) ==
    /\ platformChecks[c].stage = "use"
    /\ platformChecks' = [platformChecks EXCEPT ![c].stage = "done",
                                                ![c].used = cachedPlatformTypes]
    /\ activePlatform' = CheckPlatforms(activePlatform, environment)
    /\ UNCHANGED <<cachedPlatformTypes, platformCacheLock, assemblyScans, calls>>
    /\ PlatformCheckFrame

-----------------------------------------------------------------------------
(* GetServices, one statement at a time, called from several threads *)

GetServicesFrame ==
    /\ UNCHANGED <<config, activePlatform, pos, registry, constructed, outcomes,
                   attempts, nextInstance, lastCall>>
    /\ UNCHANGED <<lifecycleVars, platformVars, sceneVars>>
    /\ UNCHANGED <<enabledVars, sequencerVars, concurrencyVars, platformCacheVars>>
    /\ UNCHANGED <<reflectionVars, waitVars>>

\* a caller calls GetServices: the search will find some number of services,
\* all of the type asked for or not
BeginGetServices(c) ==
    /\ calls < MaxGetServicesCalls
    /\ getServicesCalls[c].stage \in {"idle", "done"}
    /\ \E n \in ServiceCounts : \E castable \in BOOLEAN :
          /\ n = 0 => castable
          /\ getServicesCalls' = [getServicesCalls EXCEPT ![c] =
                [stage |-> "rent", found |-> n, castable |-> castable,
                 pooledList |-> Null, services |-> Null, result |-> "none"]]
    /\ calls' = calls + 1
    /\ UNCHANGED <<lists, listPool, results>>
    /\ GetServicesFrame

\* var pooledList = RentList()
RentPooledList(c) ==
    /\ getServicesCalls[c].stage = "rent"
    /\ \E taken \in IF listPool = {} THEN {Null} ELSE listPool :
          LET rented == RentList(listPool, lists, taken)
          IN  /\ listPool' = rented.pool
              /\ lists' = rented.heap
              /\ getServicesCalls' = [getServicesCalls EXCEPT
                                         ![c].stage = "search",
                                         ![c].pooledList = rented.list]
    /\ UNCHANGED <<calls, results>>
    /\ GetServicesFrame

\* TryGetServicesInternal<T>(interfaceType, serviceName, pooledList)
SearchServices(c) ==
    /\ getServicesCalls[c].stage = "search"
    /\ lists' = [lists EXCEPT ![getServicesCalls[c].pooledList] =
                    AddItems(@, getServicesCalls[c].found)]
    /\ getServicesCalls' = [getServicesCalls EXCEPT ![c].stage = "copy"]
    /\ UNCHANGED <<calls, listPool, results>>
    /\ GetServicesFrame

\* services = new List<T>(pooledList.Count) and the copying loop, whose cast
\* throws when a service found is not a T
CopyServices(c) ==
    /\ getServicesCalls[c].stage = "copy"
    /\ LET call == getServicesCalls[c]
           count == lists[call.pooledList].count
       IN  /\ lists' = Allocate(lists,
                          AddItems(NewList("T", count),
                                   IF call.castable THEN count ELSE 0))
           /\ getServicesCalls' = [getServicesCalls EXCEPT
                 ![c].stage = "finally",
                 ![c].services = Len(lists) + 1,
                 ![c].result = IF call.castable THEN "none"
                               ELSE "InvalidCastException"]
    /\ UNCHANGED <<calls, listPool, results>>
    /\ GetServicesFrame

FinallySkippedOnThrow(c) ==
    /\ getServicesCalls[c].stage = "finally"
    /\ LET call == getServicesCalls[c]
           returned == IF call.result = "InvalidCastException"
                       THEN [pool |-> listPool, heap |-> lists]
                       ELSE ReturnList(call.pooledList, listPool, lists)
       IN  /\ listPool' = returned.pool
           /\ lists' = returned.heap
           /\ getServicesCalls' = [getServicesCalls EXCEPT ![c].stage = "return"]
    /\ UNCHANGED <<calls, results>>
    /\ GetServicesFrame

\* finally { ReturnList(pooledList); }, reached from the copy and from the throw
Finally(c) ==
    /\ getServicesCalls[c].stage = "finally"
    /\ LET returned == ReturnList(getServicesCalls[c].pooledList, listPool, lists)
       IN  /\ listPool' = returned.pool
           /\ lists' = returned.heap
           /\ getServicesCalls' = [getServicesCalls EXCEPT ![c].stage = "return"]
    /\ UNCHANGED <<calls, results>>
    /\ GetServicesFrame

ReturnPooledList(c) ==
    /\ getServicesCalls[c].stage = "return"
    /\ LET call == getServicesCalls[c]
       IN  IF call.result = "InvalidCastException"
           THEN /\ getServicesCalls' = [getServicesCalls EXCEPT ![c].stage = "done"]
                /\ results' = results
           ELSE /\ getServicesCalls' = [getServicesCalls EXCEPT
                                           ![c].stage = "done",
                                           ![c].services = call.pooledList,
                                           ![c].result = "returned"]
                /\ results' = results \cup {call.pooledList}
    /\ UNCHANGED <<calls, lists, listPool>>
    /\ GetServicesFrame

\* return services ?? new List<T>(), or the exception leaves the method
ReturnServices(c) ==
    /\ getServicesCalls[c].stage = "return"
    /\ LET call == getServicesCalls[c]
       IN  IF call.result = "InvalidCastException"
           THEN /\ getServicesCalls' = [getServicesCalls EXCEPT ![c].stage = "done"]
                /\ results' = results
           ELSE /\ getServicesCalls' = [getServicesCalls EXCEPT
                                           ![c].stage = "done",
                                           ![c].result = "returned"]
                /\ results' = results \cup {call.services}
    /\ UNCHANGED <<calls, lists, listPool>>
    /\ GetServicesFrame

-----------------------------------------------------------------------------
(* Calls of the reflection cache *)

ReflectionFrame ==
    /\ UNCHANGED <<config, activePlatform, pos, registry, constructed, outcomes,
                   attempts, nextInstance, lastCall>>
    /\ UNCHANGED <<lifecycleVars, platformVars, sceneVars>>
    /\ UNCHANGED <<enabledVars, sequencerVars, concurrencyVars, platformCacheVars,
                   poolVars, waitVars>>

\* code calls type.GetCachedInterfaces(ignored)
CallGetCachedInterfaces ==
    /\ calls < MaxReflectionCalls
    /\ \E t \in ReflectedTypes : \E ignored \in IgnoredLists :
          LET res == GetCachedInterfaces(interfaceCache, t, ignored)
          IN  /\ interfaceCache' = res.cache
              /\ interfaceCall' = [op |-> "GetCachedInterfaces", type |-> t,
                                   ignored |-> ignored,
                                   interfaces |-> res.interfaces]
    /\ calls' = calls + 1
    /\ ReflectionFrame

\* the Service Manager asks for the interfaces of a service's type
CallGetInterfacesFromType ==
    /\ calls < MaxReflectionCalls
    /\ \E t \in ReflectedTypes :
          LET res == GetInterfacesFromType(interfaceCache, t)
          IN  /\ interfaceCache' = res.cache
              /\ interfaceCall' = [op |-> "GetInterfacesFromType", type |-> t,
                                   ignored |-> IgnoredList(FALSE, ignoredNamespaces),
                                   interfaces |-> res.interfaces]
    /\ calls' = calls + 1
    /\ ReflectionFrame

-----------------------------------------------------------------------------
(* WaitUntilInitializedAsync, and the time it reads *)

WaitFrame ==
    /\ UNCHANGED <<config, activePlatform, pos, registry, constructed, outcomes,
                   attempts, nextInstance, calls, lastCall>>
    /\ UNCHANGED <<lifecycleVars, platformVars, sceneVars>>
    /\ UNCHANGED <<enabledVars, sequencerVars, concurrencyVars, platformCacheVars,
                   poolVars, reflectionVars>>

\* IsActiveAndInitialized, and the scene's services loaded when a scene is named
WaitCondition(sceneName) ==
    /\ isInitialized
    /\ sceneName # "" => sceneName \in loadedScenes

\* time passes
Tick ==
    /\ now < MaxTime
    /\ now' = now + 1
    /\ UNCHANGED waiter
    /\ WaitFrame

\* WaitUntilInitializedAsync(timeout, sceneName): startTime and endTime are set
BeginWait ==
    /\ waiter.stage \in {"idle", "returned"}
    /\ waiter.waits < MaxWaits
    /\ \E timeout \in 0..MaxTimeout : \E sceneName \in {""} \cup Scenes :
          /\ now + timeout <= MaxTime
          /\ waiter' = [stage |-> "check", endTime |-> now + timeout,
                        sceneName |-> sceneName, delayEnd |-> 0, delays |-> 0,
                        waits |-> waiter.waits + 1, result |-> "none"]
    /\ UNCHANGED now
    /\ WaitFrame

CheckInitializedWithoutTimeout ==
    /\ waiter.stage = "check"
    /\ waiter' = IF ~WaitCondition(waiter.sceneName)
                 THEN [waiter EXCEPT !.stage = "delay", !.delayEnd = now + 1]
                 ELSE [waiter EXCEPT !.stage = "returned", !.result = "completed"]
    /\ UNCHANGED now
    /\ WaitFrame

\* the test of the while loop: not ready and time left, so Task.Delay(1) is
\* started; else the method returns
CheckInitialized ==
    /\ waiter.stage = "check"
    /\ waiter' = IF ~WaitCondition(waiter.sceneName) /\ now < waiter.endTime
                 THEN [waiter EXCEPT !.stage = "delay", !.delayEnd = now + 1]
                 ELSE [waiter EXCEPT !.stage = "returned", !.result = "completed"]
    /\ UNCHANGED now
    /\ WaitFrame

\* await Task.Delay(1): the delay is over and the loop tests again
DelayCompletes ==
    /\ waiter.stage = "delay"
    /\ now >= waiter.delayEnd
    /\ waiter' = [waiter EXCEPT !.stage = "check", !.delays = @ + 1]
    /\ UNCHANGED now
    /\ WaitFrame

Next == SequencerStep \/ RuntimeRegister(MaxCalls) \/ RuntimeUnregister(MaxCalls)

Spec == Init /\ [][Next]_vars

\* short lists, longer sequences of runtime calls
InitRuntime ==
    /\ config \in Configurations(MaxRuntimeLen, 1)
    /\ InitialState

NextRuntime ==
    \/ SequencerStep
    \/ RuntimeRegister(MaxRuntimeCalls)
    \/ RuntimeUnregister(MaxRuntimeCalls)

SpecRuntime == InitRuntime /\ [][NextRuntime]_vars

\* the pass alone, over lists whose priorities vary
InitPass ==
    /\ config \in Configurations(MaxLen, MaxPriority)
    /\ InitialState

NextPass == SequencerStep

SpecPass == InitPass /\ [][NextPass]_vars

\* the manager from start to ready, with lookups and runtime calls in between
InitLookup ==
    /\ config \in Configurations(MaxLookupLen, 1)
    /\ InitialState

NextLookup ==
    \/ SequencerStep
    \/ InitializeNext
    \/ RaiseInitialized
    \/ RuntimeRegister(MaxLookupCalls)
    \/ RuntimeUnregister(MaxLookupCalls)
    \/ RuntimeLookup
    \/ RuntimeGetServiceCached

SpecLookup == InitLookup /\ [][NextLookup]_vars

\* the manager over several resets, in an environment that changes
InitPlatforms ==
    /\ config \in Configurations(MaxPlatformLen, 1)
    /\ InitialState

NextPlatforms ==
    \/ SequencerStep
    \/ EnvironmentChanges
    \/ ResetServiceManager

SpecPlatforms == InitPlatforms /\ [][NextPlatforms]_vars

\* the pass and the initialization that follows it, with lookups at any time
InitLifecycle ==
    /\ config \in Configurations(MaxLifecycleLen, MaxPriority)
    /\ InitialState

NextLifecycle ==
    \/ SequencerStep
    \/ InitializeNext
    \/ RaiseInitialized
    \/ RuntimeLookup

SpecLifecycle == InitLifecycle /\ [][NextLifecycle]_vars

\* the pass over services that are configured with modules, with lookups
InitModules ==
    /\ config \in ModuleConfigurations(MaxModuleLen)
    /\ InitialState

NextModules ==
    \/ SequencerStep
    \/ RuntimeLookup

SpecModules == InitModules /\ [][NextModules]_vars

\* the base configuration, then scenes loaded and unloaded
InitScenes ==
    /\ config \in Configurations(MaxSceneLen, 1)
    /\ InitialState

NextScenes ==
    \/ SequencerStep
    \/ LoadScene
    \/ UnloadScene

SpecScenes == InitScenes /\ [][NextScenes]_vars

\* services enabled and disabled while the registry is in use
InitEnabled ==
    /\ config \in Configurations(MaxEnabledLen, 1)
    /\ InitialState

NextEnabled ==
    \/ SequencerStep
    \/ RuntimeRegister(MaxEnabledCalls)
    \/ RuntimeUnregister(MaxEnabledCalls)
    \/ RuntimeLookup
    \/ DisableService
    \/ EnableService

SpecEnabled == InitEnabled /\ [][NextEnabled]_vars

\* the pass with its three stages as separate steps
InitSequencer ==
    /\ config \in Configurations(MaxSequencerLen, 1)
    /\ InitialState

NextSequencer ==
    \/ GateDescriptor
    \/ ResolveDescriptor
    \/ CommitDescriptor

SpecSequencer == InitSequencer /\ [][NextSequencer]_vars

\* an initialized manager called from several threads
InitConcurrent ==
    /\ config = <<>>
    /\ InitialState

NextConcurrent ==
    \/ RaiseInitialized
    \/ \E c \in Callers :
          \/ BeginCall(c)
          \/ AcquireWrite(c)
          \/ CheckOccupied(c)
          \/ CommitWrite(c)
          \/ AcquireRead(c)
          \/ ReadRegistry(c)
          \/ CachedTryGetValue(c)
          \/ CachedIsServiceRegistered(c)
          \/ CachedTryGetService(c)
          \/ CachedAdd(c)

SpecConcurrent == InitConcurrent /\ [][NextConcurrent]_vars

\* the pass over lists with services duplicated against different platforms
InitDuplicates ==
    /\ config \in DuplicateConfigurations(MaxDuplicateLen)
    /\ InitialState

SpecDuplicates == InitDuplicates /\ [][NextPass]_vars

\* CheckPlatforms called from several threads, over initializations and resets
InitPlatformCache ==
    /\ config = <<>>
    /\ InitialState

NextPlatformCache ==
    \/ EnvironmentChanges
    \/ \E c \in Callers :
          \/ BeginCheckPlatforms(c)
          \/ OuterCheck(c)
          \/ AcquirePlatformCacheLock(c)
          \/ InnerCheck(c)
          \/ ScanAssemblies(c)
          \/ AssignCachedPlatformTypes(c)
          \/ UseCachedPlatformTypes(c)

SpecPlatformCache == InitPlatformCache /\ [][NextPlatformCache]_vars

\* GetServices called from several threads
InitPool ==
    /\ config = <<>>
    /\ InitialState

NextPool ==
    \E c \in Callers :
        \/ BeginGetServices(c)
        \/ RentPooledList(c)
        \/ SearchServices(c)
        \/ CopyServices(c)
        \/ Finally(c)
        \/ ReturnServices(c)

SpecPool == InitPool /\ [][NextPool]_vars

\* sequences of calls of the reflection cache
InitReflection ==
    /\ config = <<>>
    /\ InitialState

NextReflection ==
    \/ CallGetCachedInterfaces
    \/ CallGetInterfacesFromType

SpecReflection == InitReflection /\ [][NextReflection]_vars

\* code waits for the manager while it starts, or does not start
InitWait ==
    /\ config \in Configurations(MaxWaitLen, 1)
    /\ InitialState

NextWait ==
    \/ SequencerStep
    \/ InitializeNext
    \/ RaiseInitialized
    \/ LoadScene
    \/ Tick
    \/ BeginWait
    \/ CheckInitialized
    \/ DelayCompletes

\* time passes and the waiting method is scheduled; nothing makes the manager
\* start
SpecWait ==
    /\ InitWait /\ [][NextWait]_vars
    /\ WF_vars(Tick) /\ WF_vars(CheckInitialized) /\ WF_vars(DelayCompletes)

\* the pass is a plain loop: it is never suspended before the list is exhausted
SpecPassFair == Init /\ [][NextPass]_vars /\ WF_vars(SequencerStep)

-----------------------------------------------------------------------------
(* What a step of the pass did, read off the two states of the step *)

PassStepped == pos' # pos

SteppedIndex == attempts'[Len(attempts')]

SteppedDescriptor == config[SteppedIndex]

SteppedOutcome == outcomes'[Len(outcomes')].outcome

SteppedEligible == activePlatform \in SteppedDescriptor.platforms

SteppedParameters == ConstructorParameters(SteppedDescriptor.concreteType)

SteppedInterface == InterfaceOf(SteppedDescriptor.concreteType)

Occupied(reg, T) == \E r \in reg : r.interfaceType = T

Stores(reg, T, i) == \E r \in reg : r.interfaceType = T /\ r.instance = i

-----------------------------------------------------------------------------
(* C1: in every reachable state the registry holds at most one
   RegisteredService per interface type. *)
C1_OneInstancePerInterface ==
    \A r1 \in registry : \A r2 \in registry :
        r1.interfaceType = r2.interfaceType => r1 = r2

\* both the pass and a runtime call were refused on an occupied interface
C1_Witness ==
    /\ lastCall.op = "register"
    /\ lastCall.result = "AlreadyRegisteredError"
    /\ \E k \in 1..Len(outcomes) : outcomes[k].outcome = "AlreadyRegisteredError"
    /\ Cardinality(registry) >= 2

(* C2: a register call for an interface that is occupied returns
   AlreadyRegisteredError and leaves the whole registry as it was, so the
   lookup of that interface still gives the first instance. *)
C2_SecondRegistrationRejected ==
    [][/\ calls' # calls /\ lastCall'.op = "register"
       /\ Occupied(registry, lastCall'.interfaceType)
       => /\ lastCall'.result = "AlreadyRegisteredError"
          /\ registry' = registry
          /\ \A i \in 1..nextInstance :
                Stores(registry, lastCall'.interfaceType, i)
                    => Stores(registry', lastCall'.interfaceType, i)]_vars

\* a new instance was offered for an interface a pass-built service occupies
C2_Witness ==
    /\ lastCall.op = "register"
    /\ lastCall.result = "AlreadyRegisteredError"
    /\ Occupied(registry, lastCall.interfaceType)
    /\ ~Stores(registry, lastCall.interfaceType, lastCall.instance)
    /\ Cardinality(registry) >= 2

(* C3: an eligible descriptor reached while one of its constructor
   dependencies is not registered fails with MissingDependencyError and
   nothing is built or registered for it; and no service is ever built with
   a null dependency argument. *)
C3_MissingDependencyFails ==
    /\ [][/\ PassStepped /\ SteppedEligible
          /\ \E k \in 1..Len(SteppedParameters) :
                ~Occupied(registry, SteppedParameters[k])
          => /\ SteppedOutcome = "MissingDependencyError"
             /\ constructed' = constructed
             /\ registry' = registry]_vars
    /\ [](\A c \in constructed : \A k \in 1..Len(c.args) : c.args[k] # Null)

\* the missing dependency's descriptor is eligible and comes later in the list
C3_Witness ==
    \E k \in 1..Len(outcomes) :
        /\ outcomes[k].outcome = "MissingDependencyError"
        /\ \E j \in (attempts[k] + 1)..Len(config) :
              /\ InterfaceOf(config[j].concreteType) = outcomes[k].parameter
              /\ activePlatform \in config[j].platforms

(* C4: an eligible descriptor whose dependencies are all registered and
   whose interface is free is registered, and its constructor received, in
   declared parameter order, the instances the registry stores for them. *)
C4_ResolvedFromRegistry ==
    [][/\ PassStepped /\ SteppedEligible
       /\ \A k \in 1..Len(SteppedParameters) :
             Occupied(registry, SteppedParameters[k])
       /\ ~Occupied(registry, SteppedInterface)
       => /\ SteppedOutcome = "registered"
          /\ \E c \in constructed' \ constructed :
                /\ Stores(registry', SteppedInterface, c.instance)
                /\ c.concreteType = SteppedDescriptor.concreteType
                /\ Len(c.args) = Len(SteppedParameters)
                /\ \A k \in 1..Len(c.args) :
                      Stores(registry, SteppedParameters[k], c.args[k])]_vars

\* a service with two different dependencies was built and registered
C4_Witness ==
    \E c \in constructed :
        /\ c.concreteType = "LoggingService"
        /\ Stores(registry, "ILoggingService", c.instance)
        /\ Len(c.args) = 2
        /\ c.args[1] # c.args[2]

(* C6: a descriptor whose platform set does not include the active platform
   is skipped: nothing is resolved or built, the registry is unchanged and
   the outcome is no error; so nothing is ever built from a descriptor that
   is not eligible, one set to run on Nothing included. *)
C6_IneligibleSkipped ==
    /\ [][PassStepped /\ ~SteppedEligible
          => /\ SteppedOutcome = "skipped"
             /\ registry' = registry
             /\ constructed' = constructed
             /\ nextInstance' = nextInstance]_vars
    /\ [](\A c \in constructed : activePlatform \in config[c.index].platforms)

\* a descriptor set to Nothing was skipped though its dependency was missing
C6_Witness ==
    \E k \in 1..Len(outcomes) :
        /\ outcomes[k].outcome = "skipped"
        /\ config[attempts[k]].platforms = {}
        /\ config[attempts[k]].concreteType = "UserService"
        /\ ~Occupied(registry, "IAuthenticationService")

-----------------------------------------------------------------------------
(* Helpers of the claims about whole passes *)

TypesOf(cfg) == [k \in 1..Len(cfg) |-> cfg[k].concreteType]

AllEligible == \A k \in 1..Len(config) : activePlatform \in config[k].platforms

\* the outcome of the descriptor at list position i, once attempted
OutcomeAt(i) ==
    IF \E k \in 1..Len(attempts) : attempts[k] = i
    THEN outcomes[CHOOSE k \in 1..Len(attempts) : attempts[k] = i].outcome
    ELSE "pending"

RegisteredInterfaces == {r.interfaceType : r \in registry}

(* C5: with all three eligible, the list [Authentication, User, Profile]
   (A, B depending on A, C depending on B) registers all three, and the list
   [Profile, User, Authentication] ends with only Authentication registered,
   Profile and User having failed with MissingDependencyError. *)
C5_ChainInOrderAndReversed ==
    Done /\ AllEligible =>
        /\ TypesOf(config) = <<"AuthenticationService", "UserService", "ProfileService">>
           => /\ \A i \in 1..3 : OutcomeAt(i) = "registered"
              /\ RegisteredInterfaces =
                    {"IAuthenticationService", "IUserService", "IProfileService"}
        /\ TypesOf(config) = <<"ProfileService", "UserService", "AuthenticationService">>
           => /\ OutcomeAt(1) = "MissingDependencyError"
              /\ OutcomeAt(2) = "MissingDependencyError"
              /\ OutcomeAt(3) = "registered"
              /\ RegisteredInterfaces = {"IAuthenticationService"}

\* the reversed chain has been processed to the end
C5_Witness ==
    /\ Done /\ AllEligible
    /\ TypesOf(config) = <<"ProfileService", "UserService", "AuthenticationService">>
    /\ Cardinality(registry) = 1

\* the lists that differ from cfg only in the priority values
PriorityVariants(cfg) ==
    {[k \in 1..Len(cfg) |-> [cfg[k] EXCEPT !.priority = ps[k]]] :
        ps \in [1..Len(cfg) -> 1..MaxPriority]}

(* C7: attempts follow the list order only: the pass attempts positions
   1, 2, ... and a pass over any list that differs only in the priority
   values makes the same attempts, reports the same outcomes and errors and
   registers the same services. *)
C7_PriorityDoesNotReorder ==
    /\ attempts = [k \in 1..pos |-> k]
    /\ Done =>
         \A c2 \in PriorityVariants(config) :
            LET other == RunPass(c2, activePlatform, FreshPass)
            IN  /\ other.attempts = attempts
                /\ other.outcomes = outcomes
                /\ other.registry = registry

\* a dependency with the higher priority sits below its dependent, which failed
C7_Witness ==
    /\ Done
    /\ \E i \in 1..Len(config) : \E j \in (i + 1)..Len(config) :
          /\ config[i].priority < config[j].priority
          /\ config[i].concreteType = "UserService"
          /\ config[j].concreteType = "AuthenticationService"
          /\ OutcomeAt(i) = "MissingDependencyError"
          /\ OutcomeAt(j) = "registered"

PassOutcomes ==
    {"registered", "skipped", "AlreadyRegisteredError", "MissingDependencyError"}

(* C8: the pass over any list terminates; every descriptor is attempted
   exactly once and gets exactly one of the four outcomes, and descriptors
   after a failed one are still attempted. *)
C8_EveryDescriptorOnce ==
    /\ [](/\ pos <= Len(config)
          /\ Len(attempts) = pos
          /\ Len(outcomes) = pos
          /\ \A j \in 1..pos : \A k \in 1..pos : attempts[j] = attempts[k] => j = k
          /\ \A k \in 1..pos : outcomes[k].outcome \in PassOutcomes)
    /\ [][PassStepped => pos' = pos + 1]_vars
    /\ <>(Done /\ {attempts[k] : k \in 1..Len(attempts)} = 1..Len(config))

\* after a failed first descriptor the next was registered and the last refused
C8_Witness ==
    /\ Done /\ Len(config) = 3
    /\ OutcomeAt(1) = "MissingDependencyError"
    /\ OutcomeAt(2) = "registered"
    /\ OutcomeAt(3) = "AlreadyRegisteredError"

-----------------------------------------------------------------------------
(* Dependency cycles among the eligible descriptors of a list *)

\* the descriptor at position i takes the interface of the one at j as a parameter
DependsOn(cfg, i, j) ==
    \E k \in 1..Len(ConstructorParameters(cfg[i].concreteType)) :
        ConstructorParameters(cfg[i].concreteType)[k] = InterfaceOf(cfg[j].concreteType)

EligiblePositions(cfg, platform) ==
    {i \in 1..Len(cfg) : platform \in cfg[i].platforms}

RECURSIVE DependencyClosure(_, _, _, _)
DependencyClosure(cfg, E, S, n) ==
    IF n = 0 THEN S
    ELSE DependencyClosure(cfg, E,
            S \cup {j \in E : \E i \in S : DependsOn(cfg, i, j)}, n - 1)

\* the eligible positions that depend, directly or through others, on themselves
CycleMembers(cfg, platform) ==
    LET E == EligiblePositions(cfg, platform)
    IN  {i \in E : i \in DependencyClosure(cfg, E,
                            {j \in E : DependsOn(cfg, i, j)}, Len(cfg))}

\* no eligible descriptor outside the cycles offers an interface a member needs
CyclesClosed(cfg, platform) ==
    \A i \in CycleMembers(cfg, platform) :
        \A j \in EligiblePositions(cfg, platform) :
            DependsOn(cfg, i, j) => j \in CycleMembers(cfg, platform)

(* C9 as stated: a pass over descriptors that depend on each other in a
   cycle never terminates normally. *)
C9_CyclicPassNeverCompletes ==
    CycleMembers(config, activePlatform) # {} => ~Done

(* C9: a circular dependency is not detected and does not recurse: the pass
   goes on to its end, and when nothing outside the cycle offers the
   interfaces its services depend on, every service of the cycle fails with
   MissingDependencyError and none of them is built or registered. *)
C9_CycleFailsAsMissingDependency ==
    /\ <>Done
    /\ [](Done /\ CyclesClosed(config, activePlatform) =>
            \A i \in CycleMembers(config, activePlatform) :
                /\ OutcomeAt(i) = "MissingDependencyError"
                /\ \A c \in constructed : c.index # i
                /\ \A r \in registry : r.name # config[i].name)

\* a pass over a list with a two-service cycle has completed
C9_Witness ==
    /\ Done
    /\ CyclesClosed(config, activePlatform)
    /\ Cardinality(CycleMembers(config, activePlatform)) = 2
    /\ Len(config) = 3
    /\ \A i \in CycleMembers(config, activePlatform) :
          OutcomeAt(i) = "MissingDependencyError"

(* C10: a descriptor that fails with MissingDependencyError leaves the
   registry exactly as it was: nothing is built, no entry is added, removed
   or replaced, and its own interface, if it was free, is still free. *)
C10_MissingDependencyChangesNothing ==
    [][PassStepped /\ SteppedOutcome = "MissingDependencyError"
       => /\ registry' = registry
          /\ constructed' = constructed
          /\ ~Occupied(registry, SteppedInterface)
                => ~Occupied(registry', SteppedInterface)]_vars

\* the last attempt failed on a missing dependency while the registry held a service
C10_Witness ==
    /\ pos >= 2 /\ Len(outcomes) = pos
    /\ outcomes[pos].outcome = "MissingDependencyError"
    /\ outcomes[pos - 1].outcome = "registered"
    /\ registry # {}
    /\ ~Occupied(registry, InterfaceOf(config[attempts[pos]].concreteType))

-----------------------------------------------------------------------------
(* What a runtime call did, read off the two states of the step *)

LookupOps == {"GetService", "TryGetService", "IsServiceRegistered"}

Looked == lastCall' # lastCall /\ lastCall'.op \in LookupOps

RegisteredAtRuntime ==
    calls' # calls /\ lastCall'.op = "register" /\ lastCall'.result = "success"

UnregisteredAtRuntime ==
    calls' # calls /\ lastCall'.op = "unregister" /\ lastCall'.result = "success"

RegisteredByPass == pos' # pos /\ outcomes'[Len(outcomes')].outcome = "registered"

EntriesOf(reg, T) == {r \in reg : r.interfaceType = T}

(* C11: a lookup of T gives the instance of the most recent successful
   registration of T that no unregistration of T has followed, and reports
   not-found otherwise; a lookup never changes the registry.  Stated step by
   step: a successful registration of (T, i) makes i the stored instance of T,
   a successful unregistration of T leaves T empty, no other step touches the
   entries of T, and a lookup answers with what is stored. *)
C11_LookupFollowsRegistration ==
    [][/\ RegisteredAtRuntime
             => EntriesOf(registry', lastCall'.interfaceType) =
                  {[interfaceType |-> lastCall'.interfaceType,
                    instance |-> lastCall'.instance, name |-> "runtime"]}
       /\ RegisteredByPass
             => \E c \in constructed' \ constructed :
                  EntriesOf(registry', InterfaceOf(c.concreteType)) =
                    {[interfaceType |-> InterfaceOf(c.concreteType),
                      instance |-> c.instance, name |-> config[c.index].name]}
       /\ UnregisteredAtRuntime
             => EntriesOf(registry', lastCall'.interfaceType) = {}
       /\ \A T \in Interfaces :
             \/ EntriesOf(registry', T) = EntriesOf(registry, T)
             \/ RegisteredAtRuntime /\ lastCall'.interfaceType = T
             \/ UnregisteredAtRuntime /\ lastCall'.interfaceType = T
             \/ RegisteredByPass
                  /\ InterfaceOf(config[attempts'[Len(attempts')]].concreteType) = T
       /\ Looked
             => /\ registry' = registry
                /\ lastCall'.result = "found"
                     <=> EntriesOf(registry, lastCall'.interfaceType) # {}
                /\ lastCall'.result \in {"found", "NotFoundError"}
                /\ lastCall'.op # "IsServiceRegistered"
                     => IF lastCall'.result = "found"
                        THEN \E r \in EntriesOf(registry, lastCall'.interfaceType) :
                                r.instance = lastCall'.instance
                        ELSE lastCall'.instance = Null]_vars

\* a service the pass registered was unregistered, and the lookup reports not-found
C11_Witness ==
    /\ lastCall.op = "TryGetService"
    /\ lastCall.result = "NotFoundError"
    /\ calls >= 1
    /\ \E k \in 1..Len(outcomes) :
          /\ outcomes[k].outcome = "registered"
          /\ InterfaceOf(config[attempts[k]].concreteType) = lastCall.interfaceType

(* C12: unregistering an occupied interface removes exactly the entry of
   that interface, and the interface can then be registered again with
   another instance; unregistering an unoccupied interface returns
   NotFoundError and changes nothing. *)
C12_UnregisterRemovesExactlyOne ==
    [][/\ calls' # calls /\ lastCall'.op = "unregister"
             => IF Occupied(registry, lastCall'.interfaceType)
                THEN /\ lastCall'.result = "success"
                     /\ registry' = registry \ EntriesOf(registry, lastCall'.interfaceType)
                ELSE /\ lastCall'.result = "NotFoundError"
                     /\ registry' = registry
       /\ (calls' # calls /\ lastCall'.op = "register"
             /\ ~Occupied(registry, lastCall'.interfaceType))
             => /\ lastCall'.result = "success"
                /\ Stores(registry', lastCall'.interfaceType, lastCall'.instance)
                /\ registry \subseteq registry']_vars

\* the service the pass registered was unregistered and another instance took its place
C12_Witness ==
    /\ lastCall.op = "register" /\ lastCall.result = "success"
    /\ Cardinality(registry) >= 2
    /\ \E c \in constructed :
          /\ InterfaceOf(c.concreteType) = lastCall.interfaceType
          /\ \E k \in 1..Len(outcomes) :
                attempts[k] = c.index /\ outcomes[k].outcome = "registered"
          /\ c.instance # lastCall.instance
          /\ Stores(registry, lastCall.interfaceType, lastCall.instance)
          /\ ~Stores(registry, lastCall.interfaceType, c.instance)

(* C13: on an initialized manager GetServiceCached gives the instance that
   is registered for the interface at the time of the call, and nothing when
   none is; the cache never holds an instance that is not the registered
   one. *)
C13_CacheNeverStale ==
    /\ [][/\ lastCall' # lastCall /\ lastCall'.op = "GetServiceCached"
          /\ isInitialized
          => /\ registry' = registry
             /\ IF Occupied(registry, lastCall'.interfaceType)
                THEN Stores(registry, lastCall'.interfaceType, lastCall'.instance)
                ELSE lastCall'.instance = Null]_vars
    /\ [](\A e \in serviceCache : Stores(registry, e.interfaceType, e.instance))

\* the cache answers with the instance that replaced the one the pass registered
C13_Witness ==
    /\ lastCall.op = "GetServiceCached" /\ lastCall.result = "found"
    /\ isInitialized
    /\ Stores(registry, lastCall.interfaceType, lastCall.instance)
    /\ \E c \in constructed :
          /\ InterfaceOf(c.concreteType) = lastCall.interfaceType
          /\ c.instance # lastCall.instance
          /\ \E k \in 1..Len(initialized) : initialized[k] = c.instance

(* C14: when an eligible descriptor has unregistered dependencies, several
   of them included, the MissingDependencyError names the dependent service
   and the first parameter, in declared order, that is not registered. *)
C14_ErrorNamesFirstUnresolved ==
    [][PassStepped /\ SteppedEligible
       => \A k \in 1..Len(SteppedParameters) :
             (/\ ~Occupied(registry, SteppedParameters[k])
              /\ \A j \in 1..(k - 1) : Occupied(registry, SteppedParameters[j]))
             => outcomes'[Len(outcomes')] =
                  [outcome |-> "MissingDependencyError",
                   service |-> SteppedDescriptor.name,
                   parameter |-> SteppedParameters[k]]]_vars

\* both dependencies of the last attempted service were missing: the first is named
C14_Witness ==
    /\ pos >= 1 /\ Len(outcomes) = pos
    /\ outcomes[pos] = [outcome |-> "MissingDependencyError",
                        service |-> "LoggingService",
                        parameter |-> "IAuthenticationService"]
    /\ ~Occupied(registry, "IAuthenticationService")
    /\ ~Occupied(registry, "IUserService")
    /\ registry # {}

(* C15: the active platform is evaluated once, when the process starts, and
   never changes, so a descriptor is eligible at one point of the run exactly
   when it is eligible at every other. *)
C15_PlatformEvaluatedOnce ==
    [][/\ activePlatform' = activePlatform
       /\ \A k \in 1..Len(config) :
             (activePlatform' \in config[k].platforms)
                <=> (activePlatform \in config[k].platforms)]_vars

-----------------------------------------------------------------------------
(* Priorities and dependencies of a list *)

\* every dependency in the list has a higher priority than its dependents
DependenciesHavePriority(cfg) ==
    \A i \in 1..Len(cfg) : \A j \in 1..Len(cfg) :
        DependsOn(cfg, i, j) => cfg[j].priority > cfg[i].priority

\* every parameter of every descriptor is the interface of a descriptor of the list
DependenciesConfigured(cfg) ==
    \A i \in 1..Len(cfg) :
        \A k \in 1..Len(ConstructorParameters(cfg[i].concreteType)) :
            \E j \in 1..Len(cfg) :
                InterfaceOf(cfg[j].concreteType) =
                    ConstructorParameters(cfg[i].concreteType)[k]

OneDescriptorPerInterface(cfg) ==
    \A i \in 1..Len(cfg) : \A j \in 1..Len(cfg) :
        InterfaceOf(cfg[i].concreteType) = InterfaceOf(cfg[j].concreteType) => i = j

(* C16: when every dependency has a higher priority than its dependents,
   the services of the list are all set up, each with its dependencies,
   whatever their positions in the list. *)
C16_PrioritySufficesForSetup ==
    (/\ Done /\ AllEligible
     /\ OneDescriptorPerInterface(config)
     /\ DependenciesConfigured(config)
     /\ DependenciesHavePriority(config))
    => \A i \in 1..Len(config) : OutcomeAt(i) = "registered"

\* the priority of the descriptor an instance was built from
PriorityOf(i) == config[(CHOOSE c \in constructed : c.instance = i).index].priority

(* C17: initialization callbacks run in priority order: of two registered
   services the one with the higher priority value is initialized first,
   wherever the two stand in the list; and the manager reports itself
   initialized only when every registered service has been initialized. *)
C17_InitializedInPriorityOrder ==
    /\ \A a \in 1..Len(initialized) : \A b \in 1..Len(initialized) :
          PriorityOf(initialized[a]) > PriorityOf(initialized[b]) => a < b
    /\ isInitialized =>
          \A c \in constructed :
             Stores(registry, InterfaceOf(c.concreteType), c.instance)
                => \E k \in 1..Len(initialized) : initialized[k] = c.instance

\* the service lower in the list has the higher priority and was initialized first
C17_Witness ==
    /\ isInitialized /\ Len(initialized) = 2
    /\ \E c1 \in constructed : \E c2 \in constructed :
          /\ initialized = <<c2.instance, c1.instance>>
          /\ c1.index < c2.index
          /\ config[c1.index].priority < config[c2.index].priority

\* the descriptor at list position i was registered by the pass
RegisteredAt(i) ==
    \E k \in 1..Len(attempts) : attempts[k] = i /\ outcomes[k].outcome = "registered"

(* C19: the manager reports itself initialized only once the pass over the
   configured list has completed; from then on every service the pass
   registered is in the registry and every lookup of its interface finds it. *)
C19_InitializedAfterPass ==
    /\ [](isInitialized =>
            /\ Done
            /\ \A i \in 1..Len(config) :
                  RegisteredAt(i) => Occupied(registry, InterfaceOf(config[i].concreteType)))
    /\ [][/\ Looked /\ isInitialized
          /\ \E i \in 1..Len(config) :
                /\ RegisteredAt(i)
                /\ InterfaceOf(config[i].concreteType) = lastCall'.interfaceType
          => lastCall'.result = "found"]_vars

\* a lookup made during the pass found nothing for a service that the pass then
\* registered: the manager is initialized and no lookup was made since
C19_Witness ==
    /\ isInitialized
    /\ lastCall.op = "GetService" /\ lastCall.result = "NotFoundError"
    /\ \E i \in 1..Len(config) :
          /\ RegisteredAt(i)
          /\ InterfaceOf(config[i].concreteType) = lastCall.interfaceType
          /\ Occupied(registry, lastCall.interfaceType)
    /\ Len(config) = 2 /\ Len(initialized) = 2

-----------------------------------------------------------------------------
(* Service modules *)

\* the modules of the descriptor of this step that may run on the active platform
SteppedModules ==
    {k \in 1..Len(ModulesOf(SteppedDescriptor.concreteType)) :
        activePlatform \in ModulesOf(SteppedDescriptor.concreteType)[k].platforms}

SteppedModuleType(k) == ModulesOf(SteppedDescriptor.concreteType)[k].concreteType

\* the record of what was built for the service at list position i
ParentsOf(c) ==
    {q \in constructed : q.index = c.index /\ q.concreteType = config[c.index].concreteType}

(* C20: when a service is registered and does not override
   RegisterServiceModules, each of its modules (that may run on the active
   platform) is registered in the same step, after the service and under the
   one-instance-per-interface rule: registered when its interface is free,
   refused when it is occupied.  A module is never in the registry without
   its service.  When the service declares RegisterServiceModules false, none
   of its modules is registered, and a lookup of a module interface that no
   other service provides reports not-found. *)
C20_ModulesFollowTheirService ==
    /\ [][PassStepped /\ SteppedOutcome = "registered"
             /\ SteppedDescriptor.concreteType # "ManagedService"
          => \A k \in SteppedModules :
                IF Occupied(registry, InterfaceOf(SteppedModuleType(k)))
                THEN EntriesOf(registry', InterfaceOf(SteppedModuleType(k)))
                        = EntriesOf(registry, InterfaceOf(SteppedModuleType(k)))
                ELSE \E c \in constructed' \ constructed :
                        /\ c.concreteType = SteppedModuleType(k)
                        /\ EntriesOf(registry', InterfaceOf(SteppedModuleType(k)))
                             = {[interfaceType |-> InterfaceOf(SteppedModuleType(k)),
                                 instance |-> c.instance,
                                 name |-> SteppedModuleType(k)]}]_vars
    /\ [][PassStepped /\ (SteppedOutcome # "registered"
                             \/ SteppedDescriptor.concreteType = "ManagedService")
          => \A T \in ModuleInterfaces :
                EntriesOf(registry', T) = EntriesOf(registry, T)]_vars
    /\ [](\A r \in registry :
            r.interfaceType \in ModuleInterfaces =>
               \E c \in constructed :
                  /\ c.instance = r.instance
                  /\ config[c.index].concreteType # "ManagedService"
                  /\ RegisteredAt(c.index)
                  /\ \E q \in ParentsOf(c) :
                        /\ q.instance < c.instance
                        /\ Stores(registry, InterfaceOf(q.concreteType), q.instance))
    /\ [][/\ Looked /\ lastCall'.interfaceType \in ModuleInterfaces
          /\ \A i \in 1..Len(config) : config[i].concreteType = "ManagedService"
          => lastCall'.result = "NotFoundError"]_vars

\* a managed service was registered and its modules were built but not registered:
\* the module interface the next service provides is found under that service's
\* module, the other one is not found
C20_Witness ==
    /\ Done /\ Len(config) = 2
    /\ config[1].concreteType = "ManagedService" /\ RegisteredAt(1)
    /\ config[2].concreteType = "OtherModularService" /\ RegisteredAt(2)
    /\ \E c \in constructed :
          /\ c.concreteType = "ServiceModuleA" /\ c.index = 1
          /\ ~Stores(registry, "IServiceModuleA", c.instance)
    /\ \E c \in constructed :
          /\ c.concreteType = "ServiceModuleA" /\ c.index = 2
          /\ Stores(registry, "IServiceModuleA", c.instance)
    /\ \E c \in constructed : c.concreteType = "ServiceModuleB" /\ c.index = 1
    /\ lastCall.op = "GetService"
    /\ lastCall.interfaceType = "IServiceModuleB"
    /\ lastCall.result = "NotFoundError"

-----------------------------------------------------------------------------
(* Scenes *)

Unloaded(scene) == scene \in loadedScenes /\ scene \notin loadedScenes'

Loaded(scene) == scene \notin loadedScenes /\ scene \in loadedScenes'

\* the registry entries the base configuration's pass made
BaseServices == {r \in registry : \E c \in constructed : c.instance = r.instance}

(* C18: unloading a scene removes from the registry every service and module
   that was registered when that scene was loaded, and nothing else: what the
   base configuration and the other loaded scenes registered stays.  So the
   registry always holds what the base configuration registered and what the
   loaded scenes registered, and no more. *)
C18_SceneUnloadRemovesItsServices ==
    /\ [][\A scene \in Scenes :
            /\ Loaded(scene) =>
                  /\ registry \subseteq registry'
                  /\ {[interfaceType |-> e.interfaceType, instance |-> e.instance] :
                         e \in {x \in sceneServices' : x.scene = scene}}
                       = {[interfaceType |-> r.interfaceType, instance |-> r.instance] :
                            r \in registry' \ registry}
                  /\ \A e \in sceneServices : e \in sceneServices'
            /\ Unloaded(scene) =>
                  /\ registry' \subseteq registry
                  /\ \A r \in registry :
                        r \notin registry'
                          <=> \E e \in sceneServices :
                                 /\ e.scene = scene
                                 /\ e.instance = r.instance
                                 /\ e.interfaceType = r.interfaceType]_vars
    /\ [](\A r \in registry :
            \/ r \in BaseServices
            \/ \E e \in sceneServices :
                  e.scene \in loadedScenes /\ e.instance = r.instance)
    /\ [](\A e \in sceneServices :
            /\ e.scene \in loadedScenes
            /\ Stores(registry, e.interfaceType, e.instance))
    /\ [](Done => \A i \in 1..Len(config) :
            RegisteredAt(i) =>
               \E r \in BaseServices : r.interfaceType = InterfaceOf(config[i].concreteType))

\* SceneA was loaded, then SceneB, then SceneA was unloaded: the base service and
\* the service of SceneB remain, the services of SceneA are gone
C18_Witness ==
    /\ loadedScenes = {"SceneB"} /\ calls = 2
    /\ \E r \in BaseServices : r.interfaceType = "IAuthenticationService"
    /\ Occupied(registry, "IProfileService")
    /\ ~Occupied(registry, "IUserService")
    /\ ~Occupied(registry, "IModularService")
    /\ ~Occupied(registry, "IServiceModuleA")
    /\ Cardinality(registry) = 2

-----------------------------------------------------------------------------
(* Enabling and disabling *)

(* C21: a registered service stays registered, under the same instance, until
   it is explicitly unregistered: enabling it, disabling it, lookups and the
   registrations of other descriptors, by the pass or at runtime, accepted or
   refused, never remove or replace its registry entry. *)
C21_RegisteredUntilUnregistered ==
    [][\A r \in registry :
          \/ /\ r \in registry'
             /\ EntriesOf(registry', r.interfaceType) = {r}
          \/ UnregisteredAtRuntime /\ lastCall'.interfaceType = r.interfaceType]_vars

\* a disabled service is still registered after a registration for its interface
\* was refused and another service was registered at runtime
C21_Witness ==
    /\ lastCall.op = "register" /\ lastCall.result = "AlreadyRegisteredError"
    /\ ~IsServiceEnabled(registry, disabledServices, lastCall.interfaceType)
    /\ \E r \in registry :
          /\ r.interfaceType = lastCall.interfaceType
          /\ r.instance \in disabledServices
          /\ r.name # "runtime"
    /\ \E r \in registry : r.name = "runtime"

-----------------------------------------------------------------------------
(* The stages of the pass *)

RECURSIVE PassPrefix(_, _, _, _)
\* the pass after n descriptors, as the loop body computes it
PassPrefix(cfg, platform, st, n) ==
    IF n = 0 THEN st
    ELSE PassPrefix(cfg, platform, PassStep(cfg, platform, st), n - 1)

PassState ==
    [pos |-> pos, registry |-> registry, constructed |-> constructed,
     outcomes |-> outcomes, attempts |-> attempts, nextInstance |-> nextInstance]

\* the instance the pass built for the descriptor at list position i
BuiltAt(i) == {c.instance : c \in {x \in constructed : x.index = i}}

(* C22: the sequencer finishes gate, resolve and commit of one descriptor
   before it starts the next: at most one descriptor is between gate and
   commit, every descriptor before it has its outcome, and what those
   registered is in the registry when its dependencies are resolved, so its
   arguments are the registered instances.  Between descriptors the pass is
   where the loop over whole descriptors puts it. *)
C22_OneDescriptorAtATime ==
    /\ Cardinality(inFlight) <= 1
    /\ \A f \in inFlight :
          /\ f.index = RegistrationOrder(config)[pos + 1]
          /\ \A i \in 1..(f.index - 1) :
                /\ OutcomeAt(i) # "pending"
                /\ RegisteredAt(i) =>
                      \E c \in BuiltAt(i) :
                          Stores(registry, InterfaceOf(config[i].concreteType), c)
          /\ f.stage = "resolved" =>
                LET params == ConstructorParameters(config[f.index].concreteType)
                IN  /\ Len(f.args) = Len(params)
                    /\ \A k \in 1..Len(params) :
                          /\ f.args[k] # Null
                          /\ Stores(registry, params[k], f.args[k])
    /\ inFlight = {} =>
          PassState = PassPrefix(config, activePlatform, FreshPass, pos)

\* the third descriptor is resolved with what the first two registered
C22_Witness ==
    \E f \in inFlight :
        /\ f.index = 3
        /\ f.stage = "resolved"
        /\ config[3].concreteType = "LoggingService"
        /\ RegisteredAt(1) /\ RegisteredAt(2)
        /\ f.args[1] \in BuiltAt(1)
        /\ f.args[2] \in BuiltAt(2)

-----------------------------------------------------------------------------
(* Services duplicated against different platforms *)

EligibleAt(i) == activePlatform \in config[i].platforms

\* i and j are the only two descriptors of their interface, i before j
OnlyTwoOfInterface(i, j) ==
    /\ i < j
    /\ InterfaceOf(config[i].concreteType) = InterfaceOf(config[j].concreteType)
    /\ \A k \in 1..Len(config) :
          InterfaceOf(config[k].concreteType) = InterfaceOf(config[i].concreteType)
              => k \in {i, j}

(* C24: a descriptor skipped by the platform gate does not occupy its
   interface.  Of the only two descriptors of an interface, with disjoint
   platform sets, the one that is eligible is never refused with
   AlreadyRegisteredError: it is registered, unless a dependency of its own
   is missing.  When both are eligible and the first was registered, the
   second, its own dependencies being registered, fails with
   AlreadyRegisteredError and the first stays registered. *)
C24_SkippedDoesNotOccupy ==
    Done =>
    \A i \in 1..Len(config) : \A j \in 1..Len(config) :
        OnlyTwoOfInterface(i, j) =>
            /\ config[i].platforms \cap config[j].platforms = {} =>
                  \A x \in {i, j} :
                      IF EligibleAt(x)
                      THEN /\ OutcomeAt(x) \in {"registered", "MissingDependencyError"}
                           /\ OutcomeAt(x) = "registered" =>
                                 \E c \in BuiltAt(x) :
                                     Stores(registry,
                                            InterfaceOf(config[x].concreteType), c)
                      ELSE OutcomeAt(x) = "skipped"
            /\ EligibleAt(i) /\ EligibleAt(j) /\ OutcomeAt(i) = "registered"
                  /\ OutcomeAt(j) # "MissingDependencyError" =>
                  /\ OutcomeAt(j) = "AlreadyRegisteredError"
                  /\ BuiltAt(j) # {}
                  /\ \E c \in BuiltAt(i) :
                        Stores(registry, InterfaceOf(config[i].concreteType), c)
                  /\ \A c \in BuiltAt(j) :
                        ~Stores(registry, InterfaceOf(config[j].concreteType), c)

\* the first duplicate, configured for the other platform, was skipped and the
\* second was registered with its dependency
C24_Witness ==
    /\ Done
    /\ \E i \in 1..Len(config) : \E j \in 1..Len(config) :
          /\ OnlyTwoOfInterface(i, j)
          /\ config[i].platforms # {} /\ config[j].platforms # {}
          /\ config[i].platforms \cap config[j].platforms = {}
          /\ OutcomeAt(i) = "skipped"
          /\ OutcomeAt(j) = "registered"
          /\ config[j].concreteType = "UserService"

-----------------------------------------------------------------------------
(* Injected dependencies after an unregistration *)

\* the services built with the instance registered for T among their arguments
DependentsOn(T) ==
    {c \in constructed : \E k \in 1..Len(c.args) : Stores(registry, T, c.args[k])}

(* C25: unregistering a service that was injected into other services removes
   only its own registry entry: the services built with it stay registered
   and keep the reference they were built with.  What a service was built
   with never changes afterwards, whatever is registered or unregistered, so
   a registered service may hold a dependency that is no longer registered. *)
C25_UnregisterLeavesDependents ==
    /\ [][UnregisteredAtRuntime =>
            /\ \A r \in registry \ registry' :
                  r.interfaceType = lastCall'.interfaceType
            /\ \A c \in DependentsOn(lastCall'.interfaceType) :
                  /\ c \in constructed'
                  /\ \A r \in registry :
                        r.instance = c.instance
                          /\ r.interfaceType # lastCall'.interfaceType
                        => r \in registry']_vars
    /\ [][\A c \in constructed : c \in constructed']_vars

\* UserService is registered with the AuthenticationService instance it was
\* built with, which has been unregistered and replaced by another instance
C25_Witness ==
    \E c \in constructed :
        /\ c.concreteType = "UserService"
        /\ Stores(registry, "IUserService", c.instance)
        /\ Len(c.args) = 1
        /\ ~Stores(registry, "IAuthenticationService", c.args[1])
        /\ Occupied(registry, "IAuthenticationService")

-----------------------------------------------------------------------------
(* The cache of platform types *)

(* C26: under any interleaving of concurrent CheckPlatforms calls the
   assemblies are scanned at most once, cachedPlatformTypes is never
   reassigned once it is set, and every call that has finished, the later
   ones of a reset included, iterated the one cached array. *)
C26_PlatformTypesScannedOnce ==
    /\ [](assemblyScans <= 1)
    /\ [][cachedPlatformTypes # Null => cachedPlatformTypes' = cachedPlatformTypes]_vars
    /\ [](\A c \in Callers :
            platformChecks[c].stage = "done" =>
                /\ platformChecks[c].used # Null
                /\ platformChecks[c].used = cachedPlatformTypes)

\* a caller that found the cache empty outside the lock is inside the lock
\* after the other caller has scanned and filled the cache
C26_Witness ==
    /\ assemblyScans = 1
    /\ cachedPlatformTypes # Null
    /\ \E c \in Callers :
          /\ platformChecks[c].stage = "inner"
          /\ platformCacheLock = c
    /\ \E c \in Callers : platformChecks[c].stage = "done"

-----------------------------------------------------------------------------
(* The list pool *)

\* caller c has a rented list in use
HoldsList(c) == getServicesCalls[c].stage \in {"search", "copy", "finally"}

\* caller c runs the finally block in this step
RanFinally(c) ==
    getServicesCalls[c].stage = "finally" /\ getServicesCalls'[c].stage = "return"

(* C27: every list in the pool of GetServices is empty and has a capacity of
   at most MaxPooledListCapacity (64): ReturnList clears the list it is given
   and keeps its capacity, puts it in the pool exactly when the capacity is
   within the bound, and does nothing when it is given null. *)
C27_PooledListsEmptyAndBounded ==
    /\ [](\A l \in listPool :
            /\ l \in 1..Len(lists)
            /\ lists[l].count = 0
            /\ lists[l].capacity <= MaxPooledListCapacity)
    /\ [][\A c \in Callers : RanFinally(c) =>
            LET l == getServicesCalls[c].pooledList
            IN  /\ lists'[l].count = 0
                /\ lists'[l].capacity = lists[l].capacity
                /\ l \in listPool' <=> lists[l].capacity <= MaxPooledListCapacity
                /\ listPool \subseteq listPool']_vars
    /\ [](ReturnList(Null, listPool, lists) = [pool |-> listPool, heap |-> lists])

\* a list that grew to the bound is in the pool, and one that grew past it was
\* cleared and left out
C27_Witness ==
    /\ \E l \in listPool : lists[l].capacity = MaxPooledListCapacity
    /\ \E l \in 1..Len(lists) :
          /\ lists[l].kind = "IService"
          /\ lists[l].capacity > MaxPooledListCapacity
          /\ lists[l].count = 0
          /\ l \notin listPool
          /\ \A c \in Callers : ~(HoldsList(c) /\ getServicesCalls[c].pooledList = l)

(* C28: a rented list is out of the pool until it is given back, so two
   concurrent GetServices calls never use the same temporary list; every
   temporary list that no call is using has been given back, the calls whose
   cast threw included; and what a caller is handed is a list of its own,
   never a temporary one, which no later step alters. *)
C28_RentedListsAreExclusive ==
    /\ [](\A c \in Callers : HoldsList(c) =>
            /\ getServicesCalls[c].pooledList \notin listPool
            /\ \A o \in Callers \ {c} :
                  HoldsList(o) =>
                     getServicesCalls[o].pooledList # getServicesCalls[c].pooledList)
    /\ [](\A l \in 1..Len(lists) :
            lists[l].kind = "IService" =>
               \/ \E c \in Callers : HoldsList(c) /\ getServicesCalls[c].pooledList = l
               \/ l \in listPool
               \/ lists[l].count = 0 /\ lists[l].capacity > MaxPooledListCapacity)
    /\ [](\A r \in results :
            /\ lists[r].kind = "T"
            /\ r \notin listPool
            /\ \A c \in Callers : getServicesCalls[c].pooledList # r)
    /\ [](\A c \in Callers :
            getServicesCalls[c].stage = "done" =>
               getServicesCalls[c].result = "returned"
                  <=> getServicesCalls[c].services \in results)
    /\ [][\A r \in results : r \in results' /\ lists'[r] = lists[r]]_vars

\* after a call has returned its result, two calls are under way with lists of
\* their own, and the cast of one of them has thrown
C28_Witness ==
    /\ results # {}
    /\ \E c \in Callers : \E o \in Callers \ {c} :
          /\ getServicesCalls[c].stage = "copy"
          /\ getServicesCalls[o].stage = "finally"
          /\ getServicesCalls[o].result = "InvalidCastException"
          /\ getServicesCalls[c].pooledList # getServicesCalls[o].pooledList
          /\ \E r \in results : lists[r].count > 0

-----------------------------------------------------------------------------
(* The reflection cache *)

\* the interfaces of t whose FullName is not in the ignored list, in order
InterfacesNotIgnored(t, ignored) ==
    SelectSeq(GetInterfaces(t),
              LAMBDA i : ignored.isNull
                         \/ \A j \in 1..Len(ignored.names) : ignored.names[j] # i)

(* C29: every call of GetCachedInterfaces(type, ignored), in any sequence of
   calls, returns exactly the interfaces of the type whose FullName is not in
   the ignored list of that call, also when the same type was asked for
   before with a different ignored list. *)
C29_InterfacesFilteredPerCall ==
    interfaceCall.op # "none" =>
        interfaceCall.interfaces
            = InterfacesNotIgnored(interfaceCall.type, interfaceCall.ignored)

-----------------------------------------------------------------------------
(* Waiting for the manager *)

(* C30: WaitUntilInitializedAsync always completes.  Whenever its test finds
   the manager active and initialized (and the named scene's services
   loaded), it returns at once, without a further delay: so without any
   delay when that was so from the start.  It starts a delay only while that
   is not so and the time is not up, and when it returns otherwise, the
   time is up.  What it returns is the same in both cases. *)
C30_WaitAlwaysCompletes ==
    /\ (waiter.stage \in {"check", "delay"}) ~> (waiter.stage = "returned")
    /\ [][waiter.stage = "check" /\ waiter'.stage # "check" =>
            IF WaitCondition(waiter.sceneName)
            THEN waiter'.stage = "returned" /\ waiter'.delays = waiter.delays
            ELSE IF now < waiter.endTime
            THEN waiter'.stage = "delay"
            ELSE waiter'.stage = "returned"]_vars
    /\ [](waiter.stage = "returned" => waiter.result = "completed")
    /\ [](waiter.stage = "delay" => waiter.delayEnd <= waiter.endTime)

\* the manager never became ready: the call returned when the time was up,
\* after two delays
C30_Witness ==
    /\ waiter.stage = "returned"
    /\ ~WaitCondition(waiter.sceneName)
    /\ waiter.delays = 2
    /\ now >= waiter.endTime
    /\ waiter.sceneName # ""

-----------------------------------------------------------------------------
(* Concurrent callers *)

\* caller c's call returns in this step
Returned(c) == callers[c].stage # "done" /\ callers'[c].stage = "done"

(* C23: under concurrent callers the registry behaves as if the calls ran
   one at a time.  A register call returns what the registry's register gives
   on the registry of the moment it returns and changes the registry as it
   does, so of two calls racing for a free interface one succeeds and the
   other gets AlreadyRegisteredError; likewise unregister.  A lookup, direct
   or cached, returns an instance or reports that there is none, nothing
   else; and one that is answered from the store in one step, the direct
   lookup from the registry or the cached one from the cache, returns the
   instance registered at that moment. *)
C23_CallsTakeEffectOneAtATime ==
    [][\A c \in Callers : Returned(c) =>
          LET call == callers'[c]
              T == call.interfaceType
          IN  CASE call.op = "register" ->
                     /\ call.result =
                          TryRegisterService(registry, T, call.instance, "runtime").result
                     /\ registry' =
                          TryRegisterService(registry, T, call.instance, "runtime").registry
                [] call.op = "unregister" ->
                     /\ call.result = TryUnregisterService(registry, T).result
                     /\ registry' = TryUnregisterService(registry, T).registry
                [] OTHER ->
                     /\ call.result \in {"found", "NotFoundError"}
                     /\ call.result = "found"
                          /\ callers[c].stage \in {"reading", "waiting"}
                        => Stores(registry, T, call.instance)
                     /\ registry' = registry]_vars

\* the calls that take the lock, alone
NextSerialized ==
    \/ RaiseInitialized
    \/ \E c \in Callers :
          \/ BeginCall(c) /\ callers'[c].op # "GetServiceCached"
          \/ AcquireWrite(c)
          \/ CheckOccupied(c)
          \/ CommitWrite(c)
          \/ AcquireRead(c)
          \/ ReadRegistry(c)

SpecSerialized == InitConcurrent /\ [][NextSerialized]_vars

====
